---- MODULE Spec2Model ----
(***************************************************************************)
(* Hybrid multimodal retrieval and fusion engine of ProyectoNoSQL.         *)
(*                                                                         *)
(* Similarity scores are fixed-point integers in units of 1e-4 (ONE is the *)
(* similarity 1.0).  The fusion and ranking weights of the source (0.7,    *)
(* 0.6, 0.4, 0.3) are kept as tenths, so a blended score is an integer in  *)
(* units of 1e-5.  A Python dict is a sequence of [key, value] pairs in    *)
(* insertion order; a MongoDB document is a function from its field names, *)
(* and d.get(k, default) is Get(d, k, default).                            *)
(***************************************************************************)
EXTENDS Integers, Sequences, FiniteSets, TLC

VARIABLES
    rag_pc,                 \* "idle" | "done": rag_query between and after requests
    rag_repeated,           \* the current request has been served a second time
    max_products,           \* data.get('max_products', 5)
    productos_texto,        \* result of the text retriever
    productos_imagen,       \* result of the image retriever
    productos_fusionados,   \* the dict of fusion, in insertion order
    productos_ordenados,    \* the ranked, truncated list
    respuesta_json,         \* the JSON body returned
    search_pc,              \* "idle" | "done": the text search between and after calls
    search_call,            \* the handler called and its arguments
    search_corpus,          \* the productos collection as the handler read it
    search_locals,          \* per scored product, the loop's local values
    search_resultados,      \* resultados after the sort
    search_returned,        \* the list handed to the caller
    req_pc,                 \* "idle" | "done": the other handlers between and after calls
    req_call,               \* the handler called, its arguments and what its services do
    req_effects,            \* the encoder, store and generation calls made, in order
    req_response,           \* what the handler returned
    req_locals,             \* the handler's local values when it ended
    db_write_calls,         \* write calls the database has received so far
    module_globals,         \* the process-wide handles of web_app, 0 for None
    constructed,            \* per handle, the objects constructed so far
    threads                 \* per request thread, where it is in a get_* call

search_vars == <<search_pc, search_call, search_corpus, search_locals,
                 search_resultados, search_returned>>

rag_vars == <<rag_pc, rag_repeated, max_products, productos_texto, productos_imagen,
              productos_fusionados, productos_ordenados, respuesta_json>>

req_vars == <<req_pc, req_call, req_effects, req_response, req_locals, db_write_calls>>

lazy_vars == <<module_globals, constructed, threads>>

vars == <<rag_vars, search_vars, req_vars, lazy_vars>>

\* ------------------------------------------------------------------ bounds

\* Largest max_products a request carries.
MaxProducts == 2
\* Longest list the text retriever returns.
MaxTextHits == 2
\* Longest list the image retriever returns.
MaxImageHits == 2
\* Most products in the collection a text search ranks, and its largest limit.
MaxCorpus == 2
\* Longest query text, in characters.
MaxQueryLen == 3
\* Largest dimension of the vectors given to cosine_similarity.
MaxDim == 2
\* Most users in the collection a review search reads.
MaxUsuarios == 2
\* Most images in the collection an image search reads.
MaxImagenes == 2
\* Most images in the collection the image search handler of web_app reads.
MaxWebImagenes == 2
\* Most write calls the database receives in one behaviour.
MaxWriteCalls == 1
\* Request threads the server runs at once.
MaxThreads == 2

\* Similarity 1.0 in the fixed-point unit (1e-4).
ONE == 100 * 100

\* codigoProducto values of the catalog (unique index idx_codigo_producto_unique).
Catalog == {"P1", "P2"}

\* str(ObjectId) of each catalog product's _id.
ObjectIdOf == [c \in Catalog |-> IF c = "P1" THEN "oid1" ELSE "oid2"]

\* Similarities the vector search reports (0.0, 0.4, 0.7).
SimValues == {0, 4000, 7000}

\* ------------------------------------------------------------- primitives

Min(a, b) == IF a <= b THEN a ELSE b
Max(a, b) == IF a >= b THEN a ELSE b

\* dict.get(key, default) on a document.
Get(d, k, default) == IF k \in DOMAIN d THEN d[k] ELSE default

\* str(x): the text of an ObjectId is its hex form, which the model uses as the
\* value of _id itself; str of a str is that str.
Str(x) == x

\* A slice that keeps one element too many.
PySliceOffByOne(s, n) == SubSeq(s, 1, Min(n + 1, Len(s)))

\* seq[:n] of Python, n of either sign.
PySlice(s, n) ==
    IF n >= 0 THEN SubSeq(s, 1, Min(n, Len(s)))
    ELSE SubSeq(s, 1, Max(Len(s) + n, 0))

\* round(num/den) to the nearest integer, ties to even (Python's round), den > 0.
RoundDiv(num, den) ==
    LET q == num \div den
        r == num % den
    IN  IF 2 * r < den THEN q
        ELSE IF 2 * r > den THEN q + 1
        ELSE IF q % 2 = 0 THEN q ELSE q + 1

\* --------------------------------------------------- dict, insertion-ordered

DictKeys(d) == {d[i].key : i \in 1..Len(d)}

DictIndex(d, k) == CHOOSE i \in 1..Len(d) : d[i].key = k

DictGet(d, k) == d[DictIndex(d, k)].value

\* d[k] = v: a present key keeps its place, a new key goes last.
DictSet(d, k, v) ==
    IF k \in DictKeys(d)
    THEN [d EXCEPT ![DictIndex(d, k)] = [key |-> k, value |-> v]]
    ELSE Append(d, [key |-> k, value |-> v])

DictValues(d) == [i \in 1..Len(d) |-> d[i].value]

\* ------------------------------------------------------------ the retrievers

\* A product document as $vectorSearch / $lookup hands it over.
ProductDoc(c) == [_id |-> ObjectIdOf[c], codigoProducto |-> c]

\* A product record that carries no _id.
ProductDocNoId(c) == [codigoProducto |-> c]

IsNonIncreasing(s, field) ==
    \A i \in 1..(Len(s) - 1) : s[i][field] >= s[i + 1][field]

SeqsUpTo(S, n) == UNION {[1..k -> S] : k \in 0..n}

\* productos_texto: distinct documents, each with its text_similarity,
\* best first, at most max_products * 2 of them.
TextHits ==
    {[_id |-> ObjectIdOf[c], codigoProducto |-> c, text_similarity |-> s] :
        c \in Catalog, s \in SimValues}

TextResults(n) ==
    {T \in SeqsUpTo(TextHits, Min(MaxTextHits, 2 * n)) :
        /\ IsNonIncreasing(T, "text_similarity")
        /\ \A i, j \in 1..Len(T) : i # j => T[i]._id # T[j]._id}

\* productos_imagen: one row per matching principal image, joined to its
\* product, best first, at most max_products of them.
ImageHits ==
    {[producto_info |-> d, image_similarity |-> s] :
        d \in {ProductDoc(c) : c \in Catalog} \cup {ProductDocNoId(c) : c \in Catalog},
        s \in SimValues}

ImageResults(n) ==
    {I \in SeqsUpTo(ImageHits, Min(MaxImageHits, n)) :
        IsNonIncreasing(I, "image_similarity")}

\* ------------------------------------------------------------------ fusion

\* Weights of the fusion, in tenths.
W_TEXT_ONLY == 7
W_TEXT == 6
W_IMAGE == 4

\* pid = str(p.get('_id', p.get('codigo_producto', '')))
FusionKey(p) == Str(Get(p, "_id", Get(p, "codigo_producto", "")))

\* One text hit: its entry replaces whatever the key held.
FuseTextHit(fus, p) ==
    DictSet(fus, FusionKey(p),
            [producto |-> p,
             text_score |-> Get(p, "text_similarity", 0),
             image_score |-> 0,
             hybrid_score |-> Get(p, "text_similarity", 0) * W_TEXT_ONLY])

\* An image hit that blends with the text-only weight instead of W_TEXT.
FuseImageHitTextOnlyWeight(fus, item) ==
    LET p == Get(item, "producto_info", <<>>)
        pid == FusionKey(p)
        sim == Get(item, "image_similarity", 0)
    IN  IF pid \in DictKeys(fus)
        THEN LET old == DictGet(fus, pid)
             IN  DictSet(fus, pid,
                         [old EXCEPT !.image_score = sim,
                                     !.hybrid_score = old.text_score * W_TEXT_ONLY + sim * W_IMAGE])
        ELSE DictSet(fus, pid,
                     [producto |-> p,
                      text_score |-> 0,
                      image_score |-> sim,
                      hybrid_score |-> sim * W_IMAGE])

\* One image hit: updates the entry of its key, or adds an image-only entry.
FuseImageHit(fus, item) ==
    LET p == Get(item, "producto_info", <<>>)
        pid == FusionKey(p)
        sim == Get(item, "image_similarity", 0)
    IN  IF pid \in DictKeys(fus)
        THEN LET old == DictGet(fus, pid)
             IN  DictSet(fus, pid,
                         [old EXCEPT !.image_score = sim,
                                     !.hybrid_score = old.text_score * W_TEXT + sim * W_IMAGE])
        ELSE DictSet(fus, pid,
                     [producto |-> p,
                      text_score |-> 0,
                      image_score |-> sim,
                      hybrid_score |-> sim * W_IMAGE])

RECURSIVE FuseTextList(_, _)
FuseTextList(fus, T) ==
    IF T = <<>> THEN fus ELSE FuseTextList(FuseTextHit(fus, Head(T)), Tail(T))

RECURSIVE FuseImageList(_, _)
FuseImageList(fus, I) ==
    IF I = <<>> THEN fus ELSE FuseImageList(FuseImageHit(fus, Head(I)), Tail(I))

\* productos_fusionados after both loops.
Fusionar(T, I) == FuseImageList(FuseTextList(<<>>, T), I)

\* Stable insertion of e into a list already ordered best first: e goes after
\* every element whose key is at least its own.
RECURSIVE InsertDesc(_, _, _)
InsertDesc(s, e, field) ==
    IF s = <<>> THEN <<e>>
    ELSE IF Head(s)[field] >= e[field]
         THEN <<Head(s)>> \o InsertDesc(Tail(s), e, field)
         ELSE <<e>> \o s

RECURSIVE StableSortDesc(_, _)
StableSortDesc(s, field) ==
    IF s = <<>> THEN <<>>
    ELSE InsertDesc(StableSortDesc(SubSeq(s, 1, Len(s) - 1), field), s[Len(s)], field)

\* Rank of an item identifier in ascending order.
IdRank(c) == CASE c = "" -> 0 [] c = "P1" -> 1 [] OTHER -> 2

\* p.get('codigoProducto', p.get('codigo_producto', '')): the item's identifier.
ItemId(p) == Get(p, "codigoProducto", Get(p, "codigo_producto", ""))

Reorderings(s) ==
    {[i \in 1..Len(s) |-> s[f[i]]] :
        f \in {g \in [1..Len(s) -> 1..Len(s)] : \A i, j \in 1..Len(s) : i # j => g[i] # g[j]}}

\* A sort that leaves the order of equal scores open.
SortedByHybridUnstable(values) ==
    {r \in Reorderings(values) : IsNonIncreasing(r, "hybrid_score")}

\* A sort that breaks equal scores by item identifier ascending.
SortedByHybridThenId(values) ==
    {r \in Reorderings(values) :
        \A i \in 1..(Len(r) - 1) :
            \/ r[i].hybrid_score > r[i + 1].hybrid_score
            \/ /\ r[i].hybrid_score = r[i + 1].hybrid_score
               /\ IdRank(ItemId(r[i].producto)) <= IdRank(ItemId(r[i + 1].producto))}

\* The orders sorted(values, key=hybrid_score, reverse=True) can return: sorted()
\* is stable, so there is one.
SortedByHybrid(values) == {StableSortDesc(values, "hybrid_score")}

\* One element of productos_formateados; the scores are percentages with two
\* decimals, in units of 0.01 %.
FormatProducto(item) ==
    LET p == item.producto
    IN  [codigo |-> ItemId(p),
         similarity |-> RoundDiv(item.hybrid_score, 10),
         text_similarity |-> RoundDiv(item.text_score, 1),
         image_similarity |-> RoundDiv(item.image_score, 1),
         hybrid_score |-> RoundDiv(item.hybrid_score, 10)]

\* The body of a successful response.
JsonResponse(ordenados) ==
    [status |-> 200,
     productos |-> [i \in 1..Len(ordenados) |-> FormatProducto(ordenados[i])],
     metadata |-> [total_productos |-> Len(ordenados)]]

NoResponse == [status |-> 0, productos |-> <<>>, metadata |-> [total_productos |-> 0]]

\* Steps 3 and 7 of rag_query on the lists the retrievers returned.
ServeRag(n, T, I) ==
    LET fus == Fusionar(T, I)
    IN  \E ranked \in SortedByHybrid(DictValues(fus)) :
            /\ max_products' = n
            /\ productos_texto' = T
            /\ productos_imagen' = I
            /\ productos_fusionados' = fus
            /\ productos_ordenados' = PySlice(ranked, n)
            /\ respuesta_json' = JsonResponse(PySlice(ranked, n))
            /\ rag_pc' = "done"

\* POST /rag with a non-empty query.
RagQuery ==
    /\ rag_pc = "idle"
    /\ rag_repeated' = FALSE
    /\ \E n \in 0..MaxProducts :
        \E T \in TextResults(n), I \in ImageResults(n) : ServeRag(n, T, I)
    /\ UNCHANGED <<search_vars, req_vars, lazy_vars>>

\* The same request again, the retrievers returning what they returned before.
RagQueryRepeat ==
    /\ rag_pc = "done"
    /\ ~rag_repeated
    /\ rag_repeated' = TRUE
    /\ ServeRag(max_products, productos_texto, productos_imagen)
    /\ UNCHANGED <<search_vars, req_vars, lazy_vars>>

\* The response is sent; nothing of the request is kept.
RagReturn ==
    /\ rag_pc = "done"
    /\ rag_pc' = "idle"
    /\ rag_repeated' = FALSE
    /\ max_products' = 0
    /\ productos_texto' = <<>>
    /\ productos_imagen' = <<>>
    /\ productos_fusionados' = <<>>
    /\ productos_ordenados' = <<>>
    /\ respuesta_json' = NoResponse
    /\ UNCHANGED <<search_vars, req_vars, lazy_vars>>

\* ------------------------------------------------------------------ text
\* A str is a sequence of characters.

Alphabet == {"a", "b", "A", " "}

IsSpace(c) == c = " "

LowerChar(c) == IF c = "A" THEN "a" ELSE c

\* str.lower()
Lower(s) == [i \in 1..Len(s) |-> LowerChar(s[i])]

RECURSIVE LStrip(_)
LStrip(s) == IF s # <<>> /\ IsSpace(Head(s)) THEN LStrip(Tail(s)) ELSE s

RECURSIVE RStrip(_)
RStrip(s) ==
    IF s # <<>> /\ IsSpace(s[Len(s)]) THEN RStrip(SubSeq(s, 1, Len(s) - 1)) ELSE s

\* str.strip()
Strip(s) == RStrip(LStrip(s))

\* The scan of str.split(): rest is unread, cur the word being read.
RECURSIVE SplitFrom(_, _, _)
SplitFrom(rest, cur, words) ==
    IF rest = <<>>
    THEN IF cur = <<>> THEN words ELSE Append(words, cur)
    ELSE IF IsSpace(Head(rest))
         THEN SplitFrom(Tail(rest), <<>>, IF cur = <<>> THEN words ELSE Append(words, cur))
         ELSE SplitFrom(Tail(rest), Append(cur, Head(rest)), words)

\* str.split(): the words between runs of whitespace.
Split(s) == SplitFrom(s, <<>>, <<>>)

\* sub in s
Contains(sub, s) ==
    \E i \in 0..(Len(s) - Len(sub)) : SubSeq(s, i + 1, i + Len(sub)) = sub

\* "".join(fields)
RECURSIVE JoinNoSeparator(_)
JoinNoSeparator(fields) ==
    IF fields = <<>> THEN <<>> ELSE fields[1] \o JoinNoSeparator(Tail(fields))

\* " ".join(fields)
RECURSIVE JoinSpace(_)
JoinSpace(fields) ==
    IF fields = <<>> THEN <<>>
    ELSE IF Len(fields) = 1 THEN fields[1]
    ELSE fields[1] \o <<" ">> \o JoinSpace(Tail(fields))

\* ------------------------------------------------------------ text search

\* Weights of the ranking score, in tenths, and the boosts, in units of 1e-4.
W_SEMANTIC == 6
W_KEYWORD == 3
BOOST_NAME == 3000
BOOST_CATEGORY == 2500
\* min_score of search_productos when the caller gives none, in units of 1e-4.
DEFAULT_MIN_SCORE == 3000

\* cosine_similarity(query_embedding, embedding) of vector_search: 0.0 when a
\* norm is 0, as it is for an empty vector.  A stored embedding is represented
\* by its cosine with the query vector.
CosineSimilarity(embedding) == IF embedding = <<>> THEN 0 ELSE embedding[1]

\* A stored embedding whose length is not the query vector's is represented by
\* two components: sklearn's cosine_similarity and np.dot raise on it.
IsMalformed(embedding) == Len(embedding) > 1

\* A product document; emb is <<present, vector>>, the vector being empty or
\* the cosine of the stored embedding.
ProductoDoc(t, emb) ==
    LET doc == [nombre |-> t[1], descripcion |-> t[2],
                categoria |-> [nombre |-> t[3]], marca |-> [nombre |-> t[4]],
                idCategoria |-> t[5], precioUsd |-> t[6]]
    IN  IF emb[1] THEN doc @@ ("descripcionEmbedding" :> emb[2]) ELSE doc

\* Collections of one product, the texts varied.
SingleDocs ==
    {ProductoDoc(<<n, d, c, m, 1, 5>>, <<TRUE, <<cos>>>>) :
        n \in {<<"A", "b">>, <<"A">>},
        d \in {<<>>, <<"b", " ", "a">>},
        c \in {<<"a">>, <<"A", "b">>},
        m \in {<<"b">>, <<"A">>},
        cos \in {3000, ONE}}

\* Products of the larger collections: two texts, every state of the embedding.
MultiDocs ==
    {ProductoDoc(t, emb) :
        t \in {<<<<"A", "b">>, <<>>, <<"a">>, <<"b">>, 1, 5>>,
               <<<<"b">>, <<"b", " ", "a">>, <<"A", "b">>, <<"A">>, 2, 10>>},
        emb \in {<<FALSE, <<>>>>, <<TRUE, <<>>>>, <<TRUE, <<2001>>>>,
                 <<TRUE, <<2002>>>>, <<TRUE, <<3000>>>>}}

\* The collection with its _id values, in natural order.
WithIds(docs) ==
    [i \in 1..Len(docs) |-> docs[i] @@ ("_id" :> i) @@ ("idProducto" :> i)]

\* Collections where an embedding has another length than the query vector.
MalformedCorpora ==
    LET t == <<<<"A", "b">>, <<>>, <<"a">>, <<"b">>, 1, 5>>
        good == ProductoDoc(t, <<TRUE, <<3000>>>>)
        bad == ProductoDoc(t, <<TRUE, <<3000, 0>>>>)
    IN  {<<bad>>, <<good, bad>>, <<bad, good>>}

Queries == SeqsUpTo(Alphabet, MaxQueryLen)

\* (collection, query, limit) of a call of search_products.
SearchInputs ==
    {<<WithIds(<<d>>), q, 1>> : d \in SingleDocs, q \in Queries}
        \cup {<<WithIds(docs), q, l>> :
                docs \in SeqsUpTo(MultiDocs, MaxCorpus),
                q \in {<<>>, <<"A">>, <<"a", " ", "b">>},
                l \in 0..MaxCorpus}
        \cup {<<WithIds(docs), <<"A">>, l>> : docs \in MalformedCorpora, l \in 1..2}

HasEmbedding(producto) ==
    "descripcionEmbedding" \in DOMAIN producto /\ producto.descripcionEmbedding # <<>>

\* find({"descripcionEmbedding": {"$exists": True, "$ne": []}})
FindWithEmbedding(corpus) == SelectSeq(corpus, HasEmbedding)

\* The loop over query_words: one point per word found in combined_text.
RECURSIVE KeywordMatches(_, _)
KeywordMatches(query_words, combined_text) ==
    IF query_words = <<>> THEN 0
    ELSE (IF Contains(Head(query_words), combined_text) THEN 1 ELSE 0)
            + KeywordMatches(Tail(query_words), combined_text)

\* combined_text without the name and the category.
CombinedTextDescriptionAndBrand(producto) ==
    JoinSpace(<<Lower(Get(producto, "descripcion", <<>>)),
                Lower(Get(Get(producto, "marca", <<>>), "nombre", <<>>))>>)

\* combined_text of a product.
CombinedText(producto) ==
    JoinSpace(<<Lower(Get(producto, "nombre", <<>>)),
                Lower(Get(producto, "descripcion", <<>>)),
                Lower(Get(Get(producto, "categoria", <<>>), "nombre", <<>>)),
                Lower(Get(Get(producto, "marca", <<>>), "nombre", <<>>))>>)

\* exact_match_boost with the category looked at first.
ExactMatchBoostCategoryFirst(query_lower, producto) ==
    IF Contains(query_lower, Lower(Get(Get(producto, "categoria", <<>>), "nombre", <<>>)))
    THEN BOOST_CATEGORY
    ELSE IF Contains(query_lower, Lower(Get(producto, "nombre", <<>>)))
         THEN BOOST_NAME
         ELSE 0

\* exact_match_boost of a product.
ExactMatchBoost(query_lower, producto) ==
    IF Contains(query_lower, Lower(Get(producto, "nombre", <<>>)))
    THEN BOOST_NAME
    ELSE IF Contains(query_lower, Lower(Get(Get(producto, "categoria", <<>>), "nombre", <<>>)))
         THEN BOOST_CATEGORY
         ELSE 0

\* hybrid_score with the boost weighted like the keyword score.
HybridNumBoostWeighted(semantic, num, den, boost) ==
    semantic * W_SEMANTIC * den + num * ONE * W_KEYWORD + boost * W_KEYWORD * den

\* hybrid_score * 10 * den, for keyword_score = num / den.
HybridNum(semantic, num, den, boost) ==
    semantic * W_SEMANTIC * den + num * ONE * W_KEYWORD + boost * 10 * den

\* The local values of one iteration.  keyword_score is kw_num / kw_den and
\* hybrid_score is hybrid_num / (10 * kw_den), both exact.
ScoreLocals(producto, query_lower, query_words) ==
    LET semantic == CosineSimilarity(producto.descripcionEmbedding)
        matches == KeywordMatches(query_words, CombinedText(producto))
        den == IF query_words # <<>> THEN Len(query_words) ELSE 1
        num == IF query_words # <<>> THEN matches ELSE 0
        boost == ExactMatchBoost(query_lower, producto)
    IN  [id |-> producto._id,
         semantic_similarity |-> semantic,
         kw_num |-> num,
         kw_den |-> den,
         exact_match_boost |-> boost,
         hybrid_num |-> HybridNum(semantic, num, den, boost)]

\* producto_info of web_app: every score rounded to four decimals.
ProductoInfo(loc) ==
    [id |-> Str(loc.id),
     similarity |-> RoundDiv(loc.hybrid_num, 10 * loc.kw_den),
     semantic_score |-> RoundDiv(loc.semantic_similarity, 1),
     keyword_score |-> RoundDiv(loc.kw_num * ONE, loc.kw_den),
     exact_match_boost |-> RoundDiv(loc.exact_match_boost, 1)]

\* producto_info of web_app_backup: similarity is the semantic score there.
ProductoInfoBackup(loc) ==
    [id |-> Str(loc.id),
     similarity |-> RoundDiv(loc.semantic_similarity, 1),
     keyword_score |-> RoundDiv(loc.kw_num * ONE, loc.kw_den),
     exact_match_boost |-> RoundDiv(loc.exact_match_boost, 1),
     hybrid_score |-> RoundDiv(loc.hybrid_num, 10 * loc.kw_den)]

\* The products the loop reaches before a comparison raises.
RECURSIVE BeforeMalformed(_)
BeforeMalformed(productos) ==
    IF productos = <<>> THEN <<>>
    ELSE IF IsMalformed(Head(productos).descripcionEmbedding) THEN <<>>
    ELSE <<Head(productos)>> \o BeforeMalformed(Tail(productos))

\* cosine_similarity raises on one of the products the loop compares.
ScoreRaises(productos) ==
    \E i \in 1..Len(productos) :
        HasEmbedding(productos[i]) /\ IsMalformed(productos[i].descripcionEmbedding)

\* The scoring loop: the products that pass its own test of the embedding.
ScoreAll(productos, query) ==
    LET query_lower == Strip(Lower(query))
        query_words == Split(query_lower)
        scored == BeforeMalformed(SelectSeq(productos, HasEmbedding))
    IN  [i \in 1..Len(scored) |-> ScoreLocals(scored[i], query_lower, query_words)]

NoCall == [handler |-> "none"]

\* search_products(query, limit) of web_app.
SearchProducts ==
    /\ search_pc = "idle"
    /\ req_pc = "idle"
    /\ \E inp \in SearchInputs :
        LET locals == ScoreAll(FindWithEmbedding(inp[1]), inp[2])
            resultados == IF ScoreRaises(inp[1]) THEN <<>>
                          ELSE StableSortDesc([i \in 1..Len(locals) |->
                                                ProductoInfo(locals[i])], "similarity")
        IN  /\ search_call' = [handler |-> "search_products", query |-> inp[2], limit |-> inp[3]]
            /\ search_corpus' = inp[1]
            /\ search_locals' = locals
            /\ search_resultados' = resultados
            /\ search_returned' = PySlice(resultados, inp[3])
    /\ search_pc' = "done"
    /\ UNCHANGED <<rag_vars, req_vars, lazy_vars>>

\* search_products(query, limit) of web_app_backup: reads every product and
\* filters the embeddings itself.
SearchProductsBackup ==
    /\ search_pc = "idle"
    /\ req_pc = "idle"
    /\ \E inp \in SearchInputs :
        LET locals == ScoreAll(SelectSeq(inp[1], HasEmbedding), inp[2])
            resultados == IF ScoreRaises(inp[1]) THEN <<>>
                          ELSE StableSortDesc([i \in 1..Len(locals) |->
                                                ProductoInfoBackup(locals[i])], "hybrid_score")
        IN  /\ search_call' = [handler |-> "search_products_backup", query |-> inp[2],
                               limit |-> inp[3]]
            /\ search_corpus' = inp[1]
            /\ search_locals' = locals
            /\ search_resultados' = resultados
            /\ search_returned' = PySlice(resultados, inp[3])
    /\ search_pc' = "done"
    /\ UNCHANGED <<rag_vars, req_vars, lazy_vars>>

\* An Optional argument is <<>> for None and <<v>> for the value v.
IsNone(opt) == opt = <<>>

\* (collection, limit, min_score, category_filter, price_range) of a call of
\* search_productos.
SearchProductosInputs ==
    {<<WithIds(docs), l, ms, f[1], f[2]>> :
        docs \in SeqsUpTo(MultiDocs, MaxCorpus),
        l \in 0..MaxCorpus,
        ms \in {0, DEFAULT_MIN_SCORE},
        f \in {<<<<>>, <<>>>>, <<<<1>>, <<>>>>,
               <<<<>>, <<<<6>>, <<>>>>>>, <<<<>>, <<<<>>, <<6>>>>>>,
               <<<<>>, <<<<>>, <<>>>>>>}}

\* The filters of search_productos: the embedding only has to exist; a price
\* range of two None bounds leaves the condition precioUsd = {}.
MatchesFilters(prod, category_filter, price_range) ==
    /\ "descripcionEmbedding" \in DOMAIN prod
    /\ IsNone(category_filter) \/ Get(prod, "idCategoria", 0) = category_filter[1]
    /\ \/ IsNone(price_range)
       \/ /\ ~(IsNone(price_range[1]) /\ IsNone(price_range[2]))
          /\ "precioUsd" \in DOMAIN prod
          /\ IsNone(price_range[1]) \/ prod.precioUsd >= price_range[1][1]
          /\ IsNone(price_range[2]) \/ prod.precioUsd <= price_range[2][1]

ProjectedFields ==
    {"idProducto", "codigoProducto", "nombre", "descripcion", "marca", "precioUsd",
     "calificacionPromedio", "cantidadResenas", "disponibilidad", "descripcionEmbedding"}

\* The projection of find(): _id is left out.
Project(prod) == [k \in (DOMAIN prod \cap ProjectedFields) |-> prod[k]]

\* The score added to the document as it was read.
WithSearchScoreOnly(prod, similarity) == prod @@ ("search_score" :> similarity)

\* del prod["descripcionEmbedding"]; prod["search_score"] = similarity
WithSearchScore(prod, similarity) ==
    [k \in (DOMAIN prod \ {"descripcionEmbedding"}) |-> prod[k]]
        @@ ("search_score" :> similarity)

\* The loop over productos with no test of the score.
RECURSIVE ScoreProductosNoThreshold(_, _)
ScoreProductosNoThreshold(productos, min_score) ==
    IF productos = <<>> THEN <<>>
    ELSE LET prod == Head(productos)
             rest == ScoreProductosNoThreshold(Tail(productos), min_score)
         IN  IF "descripcionEmbedding" \in DOMAIN prod
             THEN <<WithSearchScore(prod, CosineSimilarity(prod.descripcionEmbedding))>> \o rest
             ELSE rest

\* The loop over productos of search_productos.
RECURSIVE ScoreProductos(_, _)
ScoreProductos(productos, min_score) ==
    IF productos = <<>> THEN <<>>
    ELSE LET prod == Head(productos)
             rest == ScoreProductos(Tail(productos), min_score)
         IN  IF "descripcionEmbedding" \in DOMAIN prod
             THEN LET similarity == CosineSimilarity(prod.descripcionEmbedding)
                  IN  IF similarity >= min_score
                      THEN <<WithSearchScore(prod, similarity)>> \o rest
                      ELSE rest
             ELSE rest

\* search_productos(query, limit, min_score, category_filter, price_range) of
\* search/vector_search.
SearchProductos ==
    /\ search_pc = "idle"
    /\ req_pc = "idle"
    /\ \E inp \in SearchProductosInputs :
        LET matches(prod) == MatchesFilters(prod, inp[4], inp[5])
            found == SelectSeq(inp[1], matches)
            productos == [i \in 1..Len(found) |-> Project(found[i])]
            resultados == StableSortDesc(ScoreProductos(productos, inp[3]), "search_score")
        IN  /\ search_call' = [handler |-> "search_productos", limit |-> inp[2],
                               min_score |-> inp[3], category_filter |-> inp[4],
                               price_range |-> inp[5]]
            /\ search_corpus' = inp[1]
            /\ search_locals' = productos
            /\ search_resultados' = resultados
            /\ search_returned' = PySlice(resultados, inp[2])
    /\ search_pc' = "done"
    /\ UNCHANGED <<rag_vars, req_vars, lazy_vars>>

\* The caller has its list.
SearchReturn ==
    /\ search_pc = "done"
    /\ search_pc' = "idle"
    /\ search_call' = NoCall
    /\ search_corpus' = <<>>
    /\ search_locals' = <<>>
    /\ search_resultados' = <<>>
    /\ search_returned' = <<>>
    /\ UNCHANGED <<rag_vars, req_vars, lazy_vars>>

\* ---------------------------------------------------------------- vectors
\* An embedding is a sequence of integer components.  The vectors drawn have
\* an integer Euclidean norm, so that norms and cosines are exact.

VectorComponents == {-1, 0, 1, 3, 4}

\* sum of squares of the components
RECURSIVE NormSq(_)
NormSq(v) == IF v = <<>> THEN 0 ELSE Head(v) * Head(v) + NormSq(Tail(v))

ISqrt(n) == CHOOSE r \in 0..n : r * r <= n /\ n < (r + 1) * (r + 1)

\* np.linalg.norm(v)
Norm(v) == ISqrt(NormSq(v))

\* np.dot(a, b) of two vectors of one length
RECURSIVE Dot(_, _)
Dot(a, b) == IF a = <<>> THEN 0 ELSE Head(a) * Head(b) + Dot(Tail(a), Tail(b))

SeqsOfLen(S, n) == [1..n -> S]

\* The vectors of dimension 1..MaxDim with an integer norm.
Vectors ==
    {v \in UNION {SeqsOfLen(VectorComponents, n) : n \in 1..MaxDim} :
        Norm(v) * Norm(v) = NormSq(v)}

\* What a call gives back: a float, in units of 1e-4, or an exception.
Returned(value) == [raised |-> FALSE, value |-> value]
Raised == [raised |-> TRUE, value |-> 0]

\* dot / (norm_a * norm_b) with no test of the norms: the division fails on 0.
cosine_similarity_unguarded(vec1, vec2) ==
    IF Len(vec1) # Len(vec2) \/ Norm(vec1) * Norm(vec2) = 0
    THEN Raised
    ELSE Returned((Dot(vec1, vec2) * ONE) \div (Norm(vec1) * Norm(vec2)))

\* cosine_similarity of search/vector_search: the norms are tested before
\* np.dot, which raises ValueError on vectors of different lengths.
cosine_similarity_vector_search(vec1, vec2) ==
    IF Norm(vec1) = 0 \/ Norm(vec2) = 0
    THEN Returned(0)
    ELSE IF Len(vec1) # Len(vec2)
         THEN Raised
         ELSE Returned((Dot(vec1, vec2) * ONE) \div (Norm(vec1) * Norm(vec2)))

\* cosine_similarity of web_app: sklearn checks the shapes, then normalises
\* each row, leaving a row of norm 0 as it is, and multiplies.
cosine_similarity_web_app(vec1, vec2) ==
    IF Len(vec1) # Len(vec2)
    THEN Raised
    ELSE LET n1 == IF Norm(vec1) = 0 THEN 1 ELSE Norm(vec1)
             n2 == IF Norm(vec2) = 0 THEN 1 ELSE Norm(vec2)
         IN  Returned((Dot(vec1, vec2) * ONE) \div (n1 * n2))

\* cosine_similarity of web_app_backup: np.dot first, then the norms.
cosine_similarity_web_app_backup(vec1, vec2) ==
    IF Len(vec1) # Len(vec2)
    THEN Raised
    ELSE IF Norm(vec1) = 0 \/ Norm(vec2) = 0
         THEN Returned(0)
         ELSE Returned((Dot(vec1, vec2) * ONE) \div (Norm(vec1) * Norm(vec2)))

\* ------------------------------------------------------- calls and requests

NoRequest == [handler |-> "none"]
NoOutcome == [status |-> "none"]
NoLocals == [handler |-> "none"]

\* A call begins: nothing else is in progress.
ReqIdle == req_pc = "idle" /\ search_pc = "idle"

\* The calls that change what the database or GridFS stores.
WriteCalls == {"update_one_imagenes", "delete_one_imagenes", "gridfs_delete"}

IsWriteCall(effect) == effect \in WriteCalls

\* A call ends with its arguments, the external calls it made, its result and
\* the local values it held; the database has received its write calls.
ReqDoneWithLocals(call, effects, response, locals) ==
    /\ db_write_calls + Len(SelectSeq(effects, IsWriteCall)) <= MaxWriteCalls
    /\ db_write_calls' = db_write_calls + Len(SelectSeq(effects, IsWriteCall))
    /\ req_pc' = "done"
    /\ req_call' = call
    /\ req_effects' = effects
    /\ req_response' = response
    /\ req_locals' = locals
    /\ UNCHANGED <<rag_vars, search_vars, lazy_vars>>

\* A call ends with its arguments, the external calls it made and its result.
ReqDone(call, effects, response) == ReqDoneWithLocals(call, effects, response, NoLocals)

\* cosine_similarity(vec1, vec2) of search/vector_search.
CosineVectorSearch ==
    /\ ReqIdle
    /\ \E vec1 \in Vectors, vec2 \in Vectors :
        ReqDone([handler |-> "cosine_similarity", module |-> "vector_search",
                 vec1 |-> vec1, vec2 |-> vec2],
                <<>>, cosine_similarity_vector_search(vec1, vec2))

\* cosine_similarity(vec1, vec2) of web_app.
CosineWebApp ==
    /\ ReqIdle
    /\ \E vec1 \in Vectors, vec2 \in Vectors :
        ReqDone([handler |-> "cosine_similarity", module |-> "web_app",
                 vec1 |-> vec1, vec2 |-> vec2],
                <<>>, cosine_similarity_web_app(vec1, vec2))

\* cosine_similarity(vec1, vec2) of web_app_backup.
CosineWebAppBackup ==
    /\ ReqIdle
    /\ \E vec1 \in Vectors, vec2 \in Vectors :
        ReqDone([handler |-> "cosine_similarity", module |-> "web_app_backup",
                 vec1 |-> vec1, vec2 |-> vec2],
                <<>>, cosine_similarity_web_app_backup(vec1, vec2))

\* ------------------------------------------------------- review search
\* As in the text search, a stored embedding is represented by its cosine
\* with the query vector of the call.

\* A review with its contenidoEmbedding; emb is <<present, vector>>.
ResenaDoc(id, emb) ==
    LET doc == [idResena |-> id, titulo |-> <<"b">>]
    IN  IF emb[1] THEN doc @@ ("contenidoEmbedding" :> emb[2]) ELSE doc

ResenaLists ==
    {<<>>, <<ResenaDoc(1, <<FALSE, <<>>>>)>>, <<ResenaDoc(1, <<TRUE, <<1999>>>>)>>,
     <<ResenaDoc(1, <<TRUE, <<3000>>>>)>>,
     <<ResenaDoc(1, <<TRUE, <<2000>>>>), ResenaDoc(2, <<TRUE, <<3000>>>>)>>}

\* The documents of the usuarios collection, with and without reviews.
UsuarioDocs ==
    {[compradorVerificado |-> v, resenas |-> rs] : v \in BOOLEAN, rs \in ResenaLists}
        \cup {[compradorVerificado |-> TRUE]}

WithNombreUsuario(docs) == [i \in 1..Len(docs) |-> docs[i] @@ ("nombreUsuario" :> i)]

\* find({"resenas": {"$exists": True, "$ne": []}} and, if asked, verified buyers)
HasResenas(usuario, verified_only) ==
    /\ "resenas" \in DOMAIN usuario
    /\ usuario.resenas # <<>>
    /\ verified_only => usuario.compradorVerificado

\* del resena["contenidoEmbedding"]
WithoutContenidoEmbedding(resena) ==
    [k \in (DOMAIN resena \ {"contenidoEmbedding"}) |-> resena[k]]

\* The reviews of one user that reach min_score, as result entries.
RECURSIVE ScoreResenas(_, _, _)
ScoreResenas(usuario, resenas, min_score) ==
    IF resenas = <<>> THEN <<>>
    ELSE LET resena == Head(resenas)
             rest == ScoreResenas(usuario, Tail(resenas), min_score)
         IN  IF "contenidoEmbedding" \in DOMAIN resena
                   /\ CosineSimilarity(resena.contenidoEmbedding) >= min_score
             THEN <<[nombreUsuario |-> usuario.nombreUsuario,
                     compradorVerificado |-> usuario.compradorVerificado,
                     resena |-> WithoutContenidoEmbedding(resena),
                     search_score |-> CosineSimilarity(resena.contenidoEmbedding)]>> \o rest
             ELSE rest

RECURSIVE ScoreUsuarios(_, _)
ScoreUsuarios(usuarios, min_score) ==
    IF usuarios = <<>> THEN <<>>
    ELSE ScoreResenas(Head(usuarios), Get(Head(usuarios), "resenas", <<>>), min_score)
            \o ScoreUsuarios(Tail(usuarios), min_score)

\* What search_resenas returns on the usuarios collection given.
SearchResenasResult(usuarios, limit, min_score, verified_only) ==
    LET matches(u) == HasResenas(u, verified_only)
        found == SelectSeq(usuarios, matches)
    IN  PySlice(StableSortDesc(ScoreUsuarios(found, min_score), "search_score"), limit)

\* search_resenas(query, limit, min_score, verified_only) of search/vector_search.
SearchResenas ==
    /\ ReqIdle
    /\ \E docs \in SeqsUpTo(UsuarioDocs, MaxUsuarios), limit \in 0..2,
          min_score \in {2000, DEFAULT_MIN_SCORE}, verified_only \in BOOLEAN :
        ReqDone([handler |-> "search_resenas", limit |-> limit, min_score |-> min_score,
                 verified_only |-> verified_only, usuarios |-> WithNombreUsuario(docs)],
                <<"encode_text", "find_usuarios">>,
                [status |-> "ok",
                 body |-> SearchResenasResult(WithNombreUsuario(docs), limit, min_score,
                                              verified_only)])

\* -------------------------------------------------------- image search

\* The similarity an image has to exceed, in units of 1e-4.
IMAGE_MIN_SCORE == 1000
\* min_score and limit of the review search that follows an image search.
RELATED_REVIEWS_MIN_SCORE == 2000
RELATED_REVIEWS_LIMIT == 3

\* The fields of doc among fields: a projection of find().
ProjectFields(doc, fields) == [k \in (DOMAIN doc \cap fields) |-> doc[k]]

\* An image of a product; emb is <<present, vector>>.
ImagenDoc(idProducto, emb) ==
    LET doc == [idProducto |-> idProducto, rutaImagen |-> <<"a">>, tipoImagen |-> <<"b">>]
    IN  IF emb[1] THEN doc @@ ("clipEmbedding" :> emb[2]) ELSE doc

ImagenDocs ==
    {ImagenDoc(p, emb) :
        p \in {1, 2},
        emb \in {<<FALSE, <<>>>>, <<TRUE, <<>>>>, <<TRUE, <<999>>>>, <<TRUE, <<1000>>>>,
                 <<TRUE, <<1001>>>>, <<TRUE, <<5000>>>>}}

WithIdImagen(docs) ==
    [i \in 1..Len(docs) |-> docs[i] @@ ("_id" :> i) @@ ("idImagen" :> i)]

\* The productos collection the images belong to.
ImageCatalog ==
    WithIds(<<ProductoDoc(<<<<"A", "b">>, <<>>, <<"a">>, <<"b">>, 1, 5>>, <<TRUE, <<3000>>>>),
              ProductoDoc(<<<<"b">>, <<"b", " ", "a">>, <<"A", "b">>, <<"A">>, 2, 10>>,
                          <<TRUE, <<3000>>>>)>>)

\* The usuarios collections an image search may find.
ImageSearchUsuarios ==
    {<<>>,
     WithNombreUsuario(<<[compradorVerificado |-> TRUE,
                          resenas |-> <<ResenaDoc(1, <<TRUE, <<2000>>>>),
                                        ResenaDoc(2, <<TRUE, <<1999>>>>)>>]>>)}

\* The loop over imagenes of search_by_image.
RECURSIVE ScoreImagenes(_)
ScoreImagenes(imagenes) ==
    IF imagenes = <<>> THEN <<>>
    ELSE LET img == Head(imagenes)
             rest == ScoreImagenes(Tail(imagenes))
         IN  IF "clipEmbedding" \in DOMAIN img
                   /\ CosineSimilarity(img.clipEmbedding) > IMAGE_MIN_SCORE
             THEN <<[k \in (DOMAIN img \ {"clipEmbedding"}) |-> img[k]]
                        @@ ("similarity_score" :> CosineSimilarity(img.clipEmbedding))>> \o rest
             ELSE rest

\* productos_map[img["idProducto"]], or <<>> when no product has that idProducto.
LookupProducto(productos, idProducto) ==
    LET hasId(p) == p.idProducto = idProducto
        found == SelectSeq(productos, hasId)
    IN  IF found = <<>> THEN <<>> ELSE <<found[Len(found)]>>

\* productos_similares: the product of each kept image with imagen_similar.
RECURSIVE CombineProductos(_, _)
CombineProductos(resultados_imagenes, productos) ==
    IF resultados_imagenes = <<>> THEN <<>>
    ELSE LET img == Head(resultados_imagenes)
             hit == LookupProducto(productos, img.idProducto)
             rest == CombineProductos(Tail(resultados_imagenes), productos)
         IN  IF hit = <<>> THEN rest
             ELSE <<hit[1] @@ ("imagen_similar" :>
                        [rutaImagen |-> img.rutaImagen, tipoImagen |-> img.tipoImagen,
                         similarity_score |-> img.similarity_score])>> \o rest

\* search_by_image(image_path, search_type, limit, include_reviews) of
\* search/vector_search.  clip is "ok" or "fails" (the model does not load or
\* the image cannot be encoded); path_exists is os.path.exists(image_path).
SearchByImageResult(clip, path_exists, imagenes, usuarios, limit, include_reviews) ==
    LET hasEmbedding(img) == "clipEmbedding" \in DOMAIN img
        found == SelectSeq(imagenes, hasEmbedding)
        projected == [i \in 1..Len(found) |->
                        ProjectFields(found[i], {"idImagen", "idProducto", "rutaImagen",
                                                 "tipoImagen", "clipEmbedding"})]
        resultados_imagenes ==
            PySlice(StableSortDesc(ScoreImagenes(projected), "similarity_score"), limit)
        productos == [i \in 1..Len(ImageCatalog) |->
                        ProjectFields(ImageCatalog[i], {"idProducto", "nombre", "descripcion",
                                                        "marca", "precioUsd",
                                                        "calificacionPromedio"})]
        productos_similares == CombineProductos(resultados_imagenes, productos)
        with_reviews == include_reviews /\ productos_similares # <<>>
        resultado == [productos_similares |-> productos_similares,
                      total_encontrados |-> Len(productos_similares)]
    IN  IF clip = "fails"
        THEN [effects |-> <<"load_clip">>, response |-> [status |-> "error"]]
        ELSE IF ~path_exists
        THEN [effects |-> <<"load_clip">>, response |-> [status |-> "error"]]
        ELSE [effects |->
                <<"load_clip", "encode_image", "find_imagenes">>
                    \o (IF resultados_imagenes # <<>> THEN <<"find_productos">> ELSE <<>>)
                    \o (IF with_reviews THEN <<"encode_text", "find_usuarios">> ELSE <<>>),
              response |->
                [status |-> "ok",
                 body |-> IF with_reviews
                          THEN resultado @@ ("resenas_relacionadas" :>
                                    SearchResenasResult(usuarios, RELATED_REVIEWS_LIMIT,
                                                        RELATED_REVIEWS_MIN_SCORE, FALSE))
                          ELSE resultado]]

\* The services of a call of search_by_image: all well, or one of them failing.
ImageSearchServices ==
    {[clip |-> "ok", path_exists |-> TRUE], [clip |-> "fails", path_exists |-> TRUE],
     [clip |-> "ok", path_exists |-> FALSE]}

SearchByImage ==
    /\ ReqIdle
    /\ \E docs \in SeqsUpTo(ImagenDocs, MaxImagenes), limit \in 0..2,
          include_reviews \in BOOLEAN, usuarios \in ImageSearchUsuarios,
          svc \in ImageSearchServices :
        LET out == SearchByImageResult(svc.clip, svc.path_exists, WithIdImagen(docs),
                                       usuarios, limit, include_reviews)
        IN  ReqDone([handler |-> "search_by_image", limit |-> limit,
                     include_reviews |-> include_reviews, services |-> svc,
                     imagenes |-> WithIdImagen(docs), usuarios |-> usuarios],
                    out.effects, out.response)

\* ------------------------------------------- /api/products/search-by-image
\* In the handlers of web_app a stored embedding is [dim, cos]: its length and
\* its cosine with the query vector; dim 0 is the empty list.

\* Lengths of the CLIP vectors and of the sentence-transformers vectors.
CLIP_DIM == 512
TEXT_DIM == 384
\* similarity_score given to the products of the text fallback, in units of 1e-4.
FALLBACK_SCORE == 5000

Embedding(dim, cos) == [dim |-> dim, cos |-> cos]
Null == [null |-> TRUE]

\* cosine_similarity(query_embedding, embedding) of web_app on a query vector
\* of query_dim components: sklearn raises on vectors of different lengths.
CosineOfStored(query_dim, embedding) ==
    IF embedding.dim # query_dim THEN Raised ELSE Returned(embedding.cos)

\* The productos collection: one document written in camelCase, one in
\* snake_case.
WebCatalog ==
    <<[_id |-> "oid1", idProducto |-> 1, codigoProducto |-> "P1",
       nombre |-> <<"A", "b">>, descripcion |-> <<"b">>,
       descripcionEmbedding |-> Embedding(TEXT_DIM, 3000)],
      [_id |-> "oid2", codigo_producto |-> "P2",
       nombre |-> <<"b">>, descripcion |-> <<"b", " ", "a">>, marca_nombre |-> <<"A">>,
       descripcion_embedding |-> Embedding(TEXT_DIM, 3000)]>>

\* An image document with or without imagen_embedding_clip; emb is
\* <<present, value>>.
WithClip(doc, emb) == IF emb[1] THEN doc @@ ("imagen_embedding_clip" :> emb[2]) ELSE doc

\* Images written in camelCase (of product P1) and in snake_case (of P2).
WebImagenDocs ==
    {WithClip([esPrincipal |-> principal, idProducto |-> 1], emb) :
        principal \in BOOLEAN,
        emb \in {<<FALSE, Null>>, <<TRUE, Embedding(CLIP_DIM, 5000)>>}}
    \cup
    {WithClip([es_principal |-> TRUE, codigo_producto |-> "P2"], emb) :
        emb \in {<<FALSE, Null>>, <<TRUE, Null>>, <<TRUE, Embedding(0, 0)>>,
                 <<TRUE, Embedding(CLIP_DIM, 3000)>>, <<TRUE, Embedding(CLIP_DIM, 5000)>>,
                 <<TRUE, Embedding(TEXT_DIM, 7000)>>}}

\* imagen_embedding_clip exists and is not null
HasClipField(img) ==
    "imagen_embedding_clip" \in DOMAIN img /\ img.imagen_embedding_clip # Null

\* The documents $vectorSearch can return: those whose vector has the
\* length of the index.
IsIndexed(img) == HasClipField(img) /\ img.imagen_embedding_clip.dim = CLIP_DIM

\* $addFields similarity_score
WithSimilarityScore(img, score) == img @@ ("similarity_score" :> score)

\* $lookup on idProducto and $unwind: a missing field compares as null.
RECURSIVE LookupUnwind(_)
LookupUnwind(hits) ==
    IF hits = <<>> THEN <<>>
    ELSE LET img == Head(hits)
             joins(p) == IF "idProducto" \in DOMAIN img
                         THEN "idProducto" \in DOMAIN p /\ p.idProducto = img.idProducto
                         ELSE "idProducto" \notin DOMAIN p
             matched == SelectSeq(WebCatalog, joins)
         IN  [i \in 1..Len(matched) |->
                [producto_info |-> ProjectFields(matched[i],
                        {"codigoProducto", "nombre", "descripcion", "marcaNombre",
                         "categoriaSlug", "precioUsd", "imagenPrincipal"}),
                 similarity_score |-> img.similarity_score]]
             \o LookupUnwind(Tail(hits))

\* The aggregation: $vectorSearch (limit * 3 best), $match esPrincipal if
\* asked, $lookup, $unwind, $project, $limit.
ImagePipeline(imagenes, limit, only_principal) ==
    LET indexed == SelectSeq(imagenes, IsIndexed)
        scored == [i \in 1..Len(indexed) |->
                    WithSimilarityScore(indexed[i], indexed[i].imagen_embedding_clip.cos)]
        nearest == PySlice(StableSortDesc(scored, "similarity_score"), limit * 3)
        isPrincipal(img) == ~only_principal \/ Get(img, "esPrincipal", FALSE) = TRUE
    IN  PySlice(LookupUnwind(SelectSeq(nearest, isPrincipal)), limit)

\* The manual loop: an embedding of another length than 512 is passed over,
\* and so is one on which cosine_similarity raises.
RECURSIVE ManualSimilarities(_, _)
ManualSimilarities(imagenes, query_dim) ==
    IF imagenes = <<>> THEN <<>>
    ELSE LET img == Head(imagenes)
             embedding == img.imagen_embedding_clip
             rest == ManualSimilarities(Tail(imagenes), query_dim)
         IN  IF embedding.dim # 0 /\ embedding.dim = CLIP_DIM
             THEN LET similitud == CosineOfStored(query_dim, embedding)
                  IN  IF similitud.raised THEN rest
                      ELSE <<WithSimilarityScore(img, similitud.value)>> \o rest
             ELSE rest

\* find_one({'codigo_producto': ...}) for each of the best images.
RECURSIVE ManualLookup(_)
ManualLookup(hits) ==
    IF hits = <<>> THEN <<>>
    ELSE LET img == Head(hits)
             has(p) == "codigo_producto" \in DOMAIN p
                         /\ p.codigo_producto = img.codigo_producto
             found == SelectSeq(WebCatalog, has)
         IN  (IF found = <<>> THEN <<>>
              ELSE <<[producto_info |-> found[1],
                      similarity_score |-> img.similarity_score]>>)
             \o ManualLookup(Tail(hits))

\* The text fallback looking at nombre only.
RegexFallbackNombreOnly(query_display, limit) ==
    LET matchesText(p) == Contains(Lower(query_display), Lower(p.nombre))
        productos == PySlice(SelectSeq(WebCatalog, matchesText), limit)
    IN  [i \in 1..Len(productos) |->
            [producto_info |-> productos[i], similarity_score |-> FALLBACK_SCORE]]

\* The products whose nombre, descripcion or marca_nombre match the text as a
\* case-insensitive pattern of plain characters.
RegexFallback(query_display, limit) ==
    LET matchesText(p) ==
            \E f \in {"nombre", "descripcion", "marca_nombre"} :
                f \in DOMAIN p /\ Contains(Lower(query_display), Lower(p[f]))
        productos == PySlice(SelectSeq(WebCatalog, matchesText), limit)
    IN  [i \in 1..Len(productos) |->
            [producto_info |-> productos[i], similarity_score |-> FALLBACK_SCORE]]

\* The except branch: the search done by hand.
ManualImageSearch(imagenes, query_dim, query_display, limit) ==
    LET total_con_embedding == Len(SelectSeq(imagenes, HasClipField))
        isPrincipal(img) == HasClipField(img) /\ Get(img, "es_principal", FALSE) = TRUE
        similitudes == ManualSimilarities(SelectSeq(imagenes, isPrincipal), query_dim)
    IN  IF total_con_embedding = 0
        THEN RegexFallback(query_display, limit)
        ELSE ManualLookup(PySlice(StableSortDesc(similitudes, "similarity_score"), limit))

\* One entry of productos_formateados.
FormatImageResult(r) ==
    LET p == r.producto_info
    IN  [codigo |-> Get(p, "codigoProducto", Get(p, "codigo_producto", "")),
         nombre |-> Get(p, "nombre", <<>>),
         descripcion |-> Get(p, "descripcion", <<>>),
         similarity |-> RoundDiv(r.similarity_score, 1)]

\* What the handler answers.  mode is "image" (a file was posted) or
\* "description"; encoder is "ok", "raises" or, for a description only,
\* "unavailable" (CLIP cannot be imported: the text model's vector is used).
ApiSearchByImageResult(mode, encoder, description, vector_search, limit, imagenes) ==
    LET stripped == Strip(description)
        query_dim == IF encoder = "unavailable" THEN TEXT_DIM ELSE CLIP_DIM
        query_display == IF mode = "image" THEN <<"I", "m", "a", "g", "e", "n">> ELSE stripped
        encode == IF mode = "image" THEN <<"encode_clip_image">>
                  ELSE IF encoder = "unavailable" THEN <<"encode_text">>
                  ELSE <<"encode_clip_text">>
        atlas_ok == vector_search = "ok" /\ query_dim = CLIP_DIM
        first == ImagePipeline(imagenes, limit, TRUE)
        resultados ==
            IF atlas_ok
            THEN IF first = <<>> THEN ImagePipeline(imagenes, limit, FALSE) ELSE first
            ELSE ManualImageSearch(imagenes, query_dim, query_display, limit)
        reads ==
            IF atlas_ok
            THEN <<"count_imagenes", "count_imagenes", "aggregate_imagenes">>
                    \o (IF first = <<>> THEN <<"aggregate_imagenes">> ELSE <<>>)
            ELSE <<"count_imagenes", "count_imagenes", "aggregate_imagenes", "count_imagenes">>
                    \o (IF Len(SelectSeq(imagenes, HasClipField)) = 0
                        THEN <<"find_productos">>
                        ELSE <<"find_imagenes">>
                                \o [i \in 1..Len(resultados) |-> "find_one_producto"])
        formateados == [i \in 1..Len(resultados) |-> FormatImageResult(resultados[i])]
    IN  IF mode = "image" /\ encoder # "ok"
        THEN [effects |-> encode, response |-> [status |-> 400, results |-> <<>>]]
        ELSE IF mode = "description" /\ stripped = <<>>
        THEN [effects |-> <<>>, response |-> [status |-> 400, results |-> <<>>]]
        ELSE IF mode = "description" /\ encoder = "raises"
        THEN [effects |-> encode, response |-> [status |-> 500, results |-> <<>>]]
        ELSE [effects |-> encode \o reads,
              response |-> [status |-> 200, results |-> formateados,
                            total_results |-> Len(formateados),
                            query_type |-> IF mode = "image" THEN "imagen" ELSE "texto"]]

\* The requests of the handler: an image posted, or a description.
ApiSearchByImageRequests ==
    {[mode |-> "image", encoder |-> e, description |-> <<>>] : e \in {"ok", "raises"}}
    \cup {[mode |-> "description", encoder |-> e, description |-> d] :
            e \in {"ok", "raises", "unavailable"},
            d \in {<<>>, <<" ">>, <<"a">>, <<"b", "b">>}}

\* api_products_search_by_image of web_app.
ApiProductsSearchByImage ==
    /\ ReqIdle
    /\ \E r \in ApiSearchByImageRequests, vector_search \in {"ok", "fails"},
          limit \in 1..2, imagenes \in SeqsUpTo(WebImagenDocs, MaxWebImagenes) :
        LET out == ApiSearchByImageResult(r.mode, r.encoder, r.description, vector_search,
                                          limit, imagenes)
        IN  ReqDone([handler |-> "api_products_search_by_image", request |-> r,
                     vector_search |-> vector_search, limit |-> limit,
                     imagenes |-> imagenes],
                    out.effects, out.response)

\* ------------------------------------------------ rag_query, end to end

\* Reviews each handler reads at most when the request names no max_reviews.
MAX_REVIEWS_DEFAULT == 3

\* Products a templated answer lists.
TEMPLATE_ITEMS == 3

\* A productos document written in snake_case, emb = <<present, embedding>>.
RagStoreDoc(c, emb) ==
    LET doc == [_id |-> ObjectIdOf[c], codigo_producto |-> c]
    IN  IF emb[1] THEN doc @@ ("descripcion_embedding" :> emb[2]) ELSE doc

\* The productos collection find({}) reads: P1 then P2, the embedding of each
\* absent, empty, in the text space or of another length.
RagStores ==
    {<<RagStoreDoc("P1", e1), RagStoreDoc("P2", e2)>> :
        e1 \in {<<FALSE, Embedding(0, 0)>>, <<TRUE, Embedding(TEXT_DIM, 4000)>>,
                <<TRUE, Embedding(CLIP_DIM, 7000)>>},
        e2 \in {<<TRUE, Embedding(0, 0)>>, <<TRUE, Embedding(TEXT_DIM, 7000)>>,
                <<TRUE, Embedding(CLIP_DIM, 4000)>>}}

\* What $vectorSearch on productos hands over when it works.
RagTextResults ==
    {<<>>,
     <<[_id |-> "oid1", codigoProducto |-> "P1", text_similarity |-> 7000]>>,
     <<[_id |-> "oid2", codigoProducto |-> "P2", text_similarity |-> 7000],
       [_id |-> "oid1", codigoProducto |-> "P1", text_similarity |-> 4000]>>,
     <<[_id |-> "oid1", codigoProducto |-> "P1", text_similarity |-> 4000],
       [_id |-> "oid2", codigoProducto |-> "P2", text_similarity |-> 4000]>>}

\* producto_info of an image row: the whole joined product document.
RagProductoInfo(c) ==
    [_id |-> ObjectIdOf[c], codigoProducto |-> c,
     descripcionEmbedding |-> Embedding(TEXT_DIM, 4000)]

\* What the image pipeline hands over when it works.
RagImageResults ==
    {<<>>,
     <<[producto_info |-> RagProductoInfo("P1"), image_similarity |-> 7000]>>,
     <<[producto_info |-> RagProductoInfo("P2"), image_similarity |-> 4000]>>}

\* generate_embedding(query): the vector's length, or the model's failure.
generate_embedding(text_encoder) ==
    IF text_encoder = "ok" THEN Returned(TEXT_DIM) ELSE Raised

\* generate_clip_text_embedding(query): without CLIP it hands back the text
\* model's vector.
generate_clip_text_embedding(clip, text_encoder) ==
    CASE clip = "ok" -> Returned(CLIP_DIM)
      [] clip = "unavailable" -> generate_embedding(text_encoder)
      [] OTHER -> Raised

\* The except branch of the text search: every document with a non-empty
\* descripcion_embedding is compared with the query, in the handler itself.
RagManualTextSearch(store, n) ==
    LET embedded == SelectSeq(store, LAMBDA p :
                        /\ "descripcion_embedding" \in DOMAIN p
                        /\ p.descripcion_embedding.dim > 0)
        sims == [i \in 1..Len(embedded) |->
                    CosineOfStored(TEXT_DIM, embedded[i].descripcion_embedding)]
        scored == [i \in 1..Len(embedded) |->
                    embedded[i] @@ ("text_similarity" :> sims[i].value)]
    IN  IF \E i \in 1..Len(sims) : sims[i].raised
        THEN Raised
        ELSE Returned(PySlice(StableSortDesc(scored, "text_similarity"), n * 2))

\* if include_images and query_embedding_clip
ImageSearchRuns(include_images, clip_vector) ==
    include_images /\ ~clip_vector.raised

\* The resenas collection, nearest to the query first: four reviews of P1,
\* then one of P2.
ResenasStore ==
    <<[_id |-> "r1", codigoProducto |-> "P1", ventajas |-> <<"v1", "v2">>],
      [_id |-> "r2", codigoProducto |-> "P1", ventajas |-> <<>>],
      [_id |-> "r3", codigoProducto |-> "P1", ventajas |-> <<>>],
      [_id |-> "r4", codigoProducto |-> "P1", ventajas |-> <<>>],
      [_id |-> "r5", codigoProducto |-> "P2", ventajas |-> <<>>]>>

\* cursor.limit(n) of pymongo: a limit of 0 is no limit.
CursorLimit(docs, n) == IF n = 0 THEN docs ELSE PySlice(docs, n)

\* The aggregate on resenas raises: the service fails, or the server rejects
\* a $limit (and a numCandidates) that is not positive.
ReviewPipelineRaises(max_reviews, review_search) ==
    review_search # "ok" \/ max_reviews <= 0

\* The store calls of one candidate's reviews, with the reviews written back
\* to the candidate's product.
ReviewCallsWithWriteBack(max_reviews, review_search) ==
    <<"aggregate_resenas">>
        \o (IF ReviewPipelineRaises(max_reviews, review_search)
            THEN <<"find_resenas">> ELSE <<>>)
        \o <<"update_one_imagenes">>

\* The store calls of one candidate's reviews.
ReviewCalls(max_reviews, review_search) ==
    <<"aggregate_resenas">>
        \o (IF ReviewPipelineRaises(max_reviews, review_search)
            THEN <<"find_resenas">> ELSE <<>>)

\* The reviews of one candidate: by the vector pipeline ($vectorSearch with
\* limit max_reviews * 3, $match on the item, $limit max_reviews), or by find
\* on the item when the pipeline raises.
ResenasDe(p, max_reviews, review_search) ==
    LET codigo == Get(p, "codigoProducto", Get(p, "codigo_producto", "None"))
        delItem(r) == r.codigoProducto = codigo
    IN  IF ReviewPipelineRaises(max_reviews, review_search)
        THEN CursorLimit(SelectSeq(ResenasStore, delItem), max_reviews)
        ELSE PySlice(SelectSeq(PySlice(ResenasStore, max_reviews * 3), delItem),
                     max_reviews)

\* resenas_por_producto, keyed by str(pid).
RECURSIVE ResenasPorProducto(_, _, _)
ResenasPorProducto(ordenados, max_reviews, review_search) ==
    IF ordenados = <<>> THEN <<>>
    ELSE LET p == ordenados[Len(ordenados)].producto
         IN  DictSet(ResenasPorProducto(SubSeq(ordenados, 1, Len(ordenados) - 1),
                                        max_reviews, review_search),
                     Str(Get(p, "_id", "None")),
                     ResenasDe(p, max_reviews, review_search))

\* f"{x*100:.1f}%" of a score in units of 1e-5, in tenths of a percent.
PercentOfScore(score) == RoundDiv(score, 100)

\* f"{x:.1f}%" of a similarity in units of 1e-4, in tenths of a percent: the
\* value is printed as it is, not multiplied by 100.
PercentAsIs(similarity) == RoundDiv(similarity, 1000)

\* The lines of contexto of one candidate: its three scores, and the section
\* of its reviews (<<>> when there is none, else <<the number it announces>>).
ContextoEntry(item, resenas) ==
    LET pid == Str(Get(item.producto, "_id", ""))
        rs == IF pid \in DictKeys(resenas) THEN DictGet(resenas, pid) ELSE <<>>
    IN  [hybrid |-> PercentOfScore(item.hybrid_score),
         text |-> PercentOfScore(item.text_score * 10),
         image |-> PercentOfScore(item.image_score * 10),
         opiniones |-> IF rs # <<>> THEN <<Len(rs)>> ELSE <<>>]

\* Candidates the generator context covers at most.
LLM_CONTEXT_ITEMS == 6

\* The Relevancia line of one product of build_context_for_llm_from_products.
LlmContextEntry(p) ==
    [text |-> PercentAsIs(Get(p, "text_similarity", 0)),
     image |-> PercentAsIs(Get(p, "image_similarity", 0)),
     hybrid |-> PercentAsIs(Get(p, "hybrid_score", 0))]

\* build_context_for_llm_from_products(productos, max_items)
build_context_for_llm_from_products(productos, max_items) ==
    LET shown == PySlice(productos, max_items)
    IN  [i \in 1..Len(shown) |-> LlmContextEntry(shown[i])]

RECURSIVE SumLen(_)
SumLen(s) == IF s = <<>> THEN 0 ELSE Len(s[1]) + SumLen(Tail(s))

RECURSIVE Concat(_)
Concat(s) == IF s = <<>> THEN <<>> ELSE s[1] \o Concat(Tail(s))

\* generate_answer_with_llm: its own handler turns a failure of the service
\* into the text it returns.
generate_answer_with_llm(llm) ==
    IF llm = "ok" THEN Returned([kind |-> "llm"])
    ELSE Returned([kind |-> "llm_error_message"])

\* The answer rag_query writes itself when generate_answer_with_llm raises.
TemplateAnswer(ordenados, resenas, include_images) ==
    IF ordenados = <<>> THEN Raised
    ELSE Returned(
        [kind |-> "template",
         items |-> [i \in 1..Min(TEMPLATE_ITEMS, Len(ordenados)) |->
                      LET p == ordenados[i].producto
                          pid == Str(Get(p, "_id", ""))
                          rs == IF pid \in DictKeys(resenas) THEN DictGet(resenas, pid)
                                ELSE <<>>
                      IN  [codigo |-> ItemId(p),
                           precio |-> Get(p, "precioUsd", Get(p, "precio_usd", 0)),
                           hybrid_score |-> ordenados[i].hybrid_score,
                           ventajas |->
                               PySlice(Concat([j \in 1..Len(rs) |-> rs[j].ventajas]),
                                       TEMPLATE_ITEMS)]],
         metodo |-> IF include_images THEN "multimodal" ELSE "texto"])

RagBadRequest == [status |-> 400, error |-> "query_required"]
RagServerError == [status |-> 500, error |-> "rag_error"]

\* rag_query on one request, the services answering as svc says.
RagQueryResult(query, n, max_reviews, include_images, include_reviews, svc, T, store, I) ==
    LET embedding_text == generate_embedding(svc.text_encoder)
        clip_vector == IF include_images
                       THEN generate_clip_text_embedding(svc.clip, svc.text_encoder)
                       ELSE Raised
        e_encode == <<"encode_text">>
                    \o (IF include_images
                        THEN (IF svc.clip = "unavailable" THEN <<"load_clip", "encode_text">>
                              ELSE <<"load_clip", "encode_clip_text">>)
                        ELSE <<>>)
        texto == IF svc.text_search = "ok" THEN Returned(T)
                 ELSE RagManualTextSearch(store, n)
        e_texto == <<"aggregate_productos">>
                   \o (IF svc.text_search = "ok" THEN <<>> ELSE <<"find_productos">>)
        image_runs == ImageSearchRuns(include_images, clip_vector)
        image_ok == image_runs /\ svc.image_search = "ok" /\ clip_vector.value = CLIP_DIM
        imagen == IF image_ok THEN I ELSE <<>>
        e_imagen == IF image_runs THEN <<"aggregate_imagenes">> ELSE <<>>
        ordenados == PySlice(StableSortDesc(DictValues(Fusionar(texto.value, imagen)),
                                            "hybrid_score"), n)
        resenas == IF include_reviews
                   THEN ResenasPorProducto(ordenados, max_reviews, svc.review_search)
                   ELSE <<>>
        e_resenas == IF include_reviews
                     THEN Concat([i \in 1..Len(ordenados) |->
                                    ReviewCalls(max_reviews, svc.review_search)])
                     ELSE <<>>
        total_resenas == IF include_reviews
                         THEN SumLen([i \in 1..Len(ordenados) |->
                                        ResenasDe(ordenados[i].producto, max_reviews,
                                                  svc.review_search)])
                         ELSE 0
        locals == [handler |-> "rag_query",
                   productos_ordenados |-> ordenados,
                   resenas_por_producto |-> resenas,
                   total_resenas |-> total_resenas,
                   contexto |-> [i \in 1..Len(ordenados) |->
                                    ContextoEntry(ordenados[i], resenas)],
                   llm_context |->
                        build_context_for_llm_from_products(
                            [i \in 1..Len(ordenados) |-> ordenados[i].producto],
                            Min(LLM_CONTEXT_ITEMS, Len(ordenados)))]
        answer == generate_answer_with_llm(svc.llm)
        respuesta == IF answer.raised
                     THEN TemplateAnswer(ordenados, resenas, include_images)
                     ELSE answer
    IN  IF Strip(query) = <<>>
        THEN [effects |-> <<>>, response |-> RagBadRequest, locals |-> NoLocals]
        ELSE IF embedding_text.raised
        THEN [effects |-> <<"encode_text">>, response |-> RagServerError,
              locals |-> NoLocals]
        ELSE IF texto.raised
        THEN [effects |-> e_encode \o e_texto, response |-> RagServerError,
              locals |-> NoLocals]
        ELSE IF respuesta.raised
        THEN [effects |-> e_encode \o e_texto \o e_imagen \o e_resenas \o <<"llm">>,
              response |-> RagServerError, locals |-> locals]
        ELSE [effects |-> e_encode \o e_texto \o e_imagen \o e_resenas \o <<"llm">>,
              locals |-> locals,
              response |->
                [status |-> 200,
                 rag_response |-> respuesta.value,
                 productos |-> [i \in 1..Len(ordenados) |-> FormatProducto(ordenados[i])],
                 metadata |->
                    [total_productos |-> Len(ordenados),
                     total_resenas |-> total_resenas,
                     search_modes |->
                        [text_search |-> TRUE,
                         image_search |-> include_images /\ ~clip_vector.raised,
                         review_search |-> include_reviews]]]]

\* The ways the services of one request can answer.
RagServices ==
    [text_encoder : {"ok", "fails"}, clip : {"ok", "raises", "unavailable"},
     text_search : {"ok", "fails"}, image_search : {"ok", "fails"},
     review_search : {"ok", "fails"}, llm : {"ok", "fails"}]

\* The requests whose query is rejected, and those that are served.
RagRequests ==
    [query : {<<>>, <<" ">>}, max_products : {2}, max_reviews : {MAX_REVIEWS_DEFAULT},
     include_images : {TRUE}, include_reviews : {TRUE}]
    \cup [query : {<<"a">>}, max_products : 1..2, max_reviews : {MAX_REVIEWS_DEFAULT},
          include_images : BOOLEAN, include_reviews : BOOLEAN]
    \cup [query : {<<"a">>}, max_products : 1..2, max_reviews : {0, 1},
          include_images : BOOLEAN, include_reviews : {TRUE}]

\* POST /rag, the services failing or not.
RagQueryWithServices ==
    /\ ReqIdle
    /\ \E r \in RagRequests, svc \in RagServices, I \in RagImageResults,
          source \in ([kind : {"index"}, T : RagTextResults, store : {<<>>}]
                      \cup [kind : {"find"}, T : {<<>>}, store : RagStores]) :
        /\ (source.kind = "index") <=> (svc.text_search = "ok")
        /\ LET out == RagQueryResult(r.query, r.max_products, r.max_reviews,
                                     r.include_images, r.include_reviews, svc, source.T,
                                     source.store, I)
           IN  ReqDoneWithLocals([handler |-> "rag_query", request |-> r, services |-> svc,
                                  productos_texto |-> source.T, productos |-> source.store,
                                  productos_imagen |-> I],
                                 out.effects, out.response, out.locals)

\* ------------------------------------------------------------------ ragtech

\* Reviews ragtech asks search_reviews for.
RAGTECH_REVIEWS == 5

\* search_products(query, limit) of web_app as ragtech calls it: its own
\* handler turns every failure into an empty list.
SearchProductsReturned(text_encoder, corpus, query, limit) ==
    LET locals == ScoreAll(FindWithEmbedding(corpus), query)
    IN  IF text_encoder # "ok"
        THEN [effects |-> <<"encode_text">>, value |-> <<>>]
        ELSE [effects |-> <<"encode_text", "find_productos">>,
              value |-> IF ScoreRaises(corpus) THEN <<>>
                        ELSE PySlice(StableSortDesc([i \in 1..Len(locals) |->
                                                       ProductoInfo(locals[i])],
                                                    "similarity"), limit)]

\* The loop over the reviews of one user in search_reviews.
RECURSIVE ReviewInfos(_, _)
ReviewInfos(usuario, resenas) ==
    IF resenas = <<>> THEN <<>>
    ELSE LET resena == Head(resenas)
             rest == ReviewInfos(usuario, Tail(resenas))
         IN  IF "contenidoEmbedding" \in DOMAIN resena /\ resena.contenidoEmbedding # <<>>
             THEN <<[usuario |-> Get(usuario, "nombreUsuario", 0),
                     titulo |-> resena.titulo,
                     similarity |-> RoundDiv(CosineSimilarity(resena.contenidoEmbedding), 1)]>>
                    \o rest
             ELSE rest

\* search_reviews(query, limit) of web_app.
SearchReviewsReturned(text_encoder, usuarios, limit) ==
    LET found == SelectSeq(usuarios, LAMBDA u : HasResenas(u, FALSE))
        resultados == Concat([i \in 1..Len(found) |-> ReviewInfos(found[i], found[i].resenas)])
    IN  IF text_encoder # "ok"
        THEN [effects |-> <<"encode_text">>, value |-> <<>>]
        ELSE [effects |-> <<"encode_text", "find_usuarios">>,
              value |-> PySlice(StableSortDesc(resultados, "similarity"), limit)]

\* POST /ragtech.  body is "none" (no JSON), "no_query" or "query".
RagtechResult(body, query, limit, include_reviews, text_encoder, corpus, usuarios) ==
    LET productos == SearchProductsReturned(text_encoder, corpus, query, limit)
        resenas == IF include_reviews
                   THEN SearchReviewsReturned(text_encoder, usuarios, RAGTECH_REVIEWS)
                   ELSE [effects |-> <<>>, value |-> <<>>]
    IN  IF body # "query"
        THEN [effects |-> <<>>, response |-> [status |-> 400, error |-> "query_required"]]
        ELSE IF Strip(query) = <<>>
        THEN [effects |-> <<>>, response |-> [status |-> 400, error |-> "query_empty"]]
        ELSE [effects |-> productos.effects \o resenas.effects,
              response |->
                [status |-> 200,
                 body |-> [total_productos |-> Len(productos.value),
                           total_resenas |-> Len(resenas.value),
                           productos |-> productos.value,
                           resenas |-> resenas.value]]]

\* The productos collections of ragtech and hybrid_search.
SmallCorpora ==
    {<<>>} \cup MalformedCorpora
        \cup {<<ProductoDoc(<<<<"A", "b">>, <<>>, <<"a">>, <<"b">>, 1, 5>>, <<TRUE, <<cos>>>>)>> :
                cos \in {2000, 3000}}

\* The texts a caller sends as its query: empty, blank, padded, plain.
QueryTexts == {<<>>, <<" ">>, <<" ", "A">>, <<"A">>}

Ragtech ==
    /\ ReqIdle
    /\ \E body \in {"none", "no_query", "query"}, query \in QueryTexts, limit \in 1..2,
          include_reviews \in BOOLEAN, text_encoder \in {"ok", "fails"},
          corpus \in SmallCorpora, usuarios \in ImageSearchUsuarios :
        /\ body # "query" => (query = <<>> /\ limit = 1 /\ include_reviews)
        /\ LET out == RagtechResult(body, query, limit, include_reviews, text_encoder,
                                    WithIds(corpus), usuarios)
           IN  ReqDone([handler |-> "ragtech", body |-> body, query |-> query,
                        limit |-> limit, include_reviews |-> include_reviews,
                        text_encoder |-> text_encoder, productos |-> WithIds(corpus),
                        usuarios |-> usuarios],
                       out.effects, out.response)

\* ------------------------------------------- hybrid_search of vector_search

\* search_productos(text_query, limit=limit) as hybrid_search calls it, with
\* no filter: the encoder's failure is the caller's.
SearchProductosReturned(text_encoder, corpus, limit) ==
    LET productos == [i \in 1..Len(corpus) |-> Project(corpus[i])]
    IN  IF text_encoder # "ok"
        THEN [effects |-> <<"encode_text">>, raised |-> TRUE, value |-> <<>>]
        ELSE [effects |-> <<"encode_text", "find_productos">>, raised |-> FALSE,
              value |-> PySlice(StableSortDesc(ScoreProductos(productos, DEFAULT_MIN_SCORE),
                                               "search_score"), limit)]

\* producto["relevancia"] = ... on the items of a list.
WithRelevancia(items, relevancia) ==
    [i \in 1..Len(items) |-> ("relevancia" :> relevancia) @@ items[i]]

IdsOf(items) == {items[i].idProducto : i \in 1..Len(items)}

\* hybrid_search(text_query, image_path, filters=None, limit).  An argument is
\* <<>> for None and <<v>> for the value v.
HybridSearchResult(text_query, image_path, limit, svc, corpus, imagenes, usuarios) ==
    LET text_given == ~IsNone(text_query) /\ text_query[1] # <<>>
        image_given == ~IsNone(image_path)
        texto == IF text_given THEN SearchProductosReturned(svc.text_encoder, corpus, limit)
                 ELSE [effects |-> <<>>, raised |-> FALSE, value |-> <<>>]
        imagen == IF image_given
                  THEN SearchByImageResult(svc.clip, svc.path_exists, imagenes, usuarios,
                                           limit, TRUE)
                  ELSE [effects |-> <<>>, response |-> [status |-> "error"]]
        similares == IF imagen.response.status = "ok"
                            THEN imagen.response.body.productos_similares ELSE <<>>
        ids_texto == IdsOf(texto.value)
        ids_comunes == ids_texto \cap IdsOf(similares)
        comunes == SelectSeq(texto.value, LAMBDA p : p.idProducto \in ids_comunes)
        solo_texto == SelectSeq(texto.value, LAMBDA p : p.idProducto \notin ids_comunes)
        solo_imagen == SelectSeq(similares, LAMBDA p : p.idProducto \notin ids_texto)
        both == text_given /\ image_given
        \* the items of the lists are the dictionaries the combination marks
        mark_texto(p) == ("relevancia" :> (IF p.idProducto \in ids_comunes THEN "alta"
                                           ELSE "texto")) @@ p
        mark_imagen(p) == IF p.idProducto \in ids_texto THEN p
                          ELSE ("relevancia" :> "imagen") @@ p
    IN  IF texto.raised
        THEN [effects |-> texto.effects, response |-> [status |-> "raised"]]
        ELSE [effects |-> texto.effects \o imagen.effects,
              response |->
                [status |-> "ok",
                 body |->
                    [productos_texto |->
                        IF both THEN [i \in 1..Len(texto.value) |-> mark_texto(texto.value[i])]
                        ELSE texto.value,
                     productos_imagen |->
                        IF both THEN [i \in 1..Len(similares) |-> mark_imagen(similares[i])]
                        ELSE similares,
                     productos_combinados |->
                        IF both
                        THEN PySlice(WithRelevancia(comunes, "alta")
                                        \o WithRelevancia(solo_texto, "texto")
                                        \o WithRelevancia(solo_imagen, "imagen"), limit)
                        ELSE <<>>]]]

\* The imagenes collections of hybrid_search: none, one image, two images of
\* one product, an image of each product.
HybridSearchImagenes ==
    {<<>>,
     <<ImagenDoc(1, <<TRUE, <<5000>>>>)>>,
     <<ImagenDoc(1, <<TRUE, <<5000>>>>), ImagenDoc(1, <<TRUE, <<1001>>>>)>>,
     <<ImagenDoc(2, <<TRUE, <<5000>>>>), ImagenDoc(1, <<TRUE, <<1001>>>>)>>}

HybridSearchServices ==
    [text_encoder : {"ok", "fails"}, clip : {"ok", "fails"}, path_exists : BOOLEAN]

HybridSearch ==
    /\ ReqIdle
    /\ \E text_query \in {<<>>} \cup {<<q>> : q \in QueryTexts},
          image_path \in {<<>>, <<"img">>}, limit \in 1..2,
          svc \in HybridSearchServices, corpus \in SmallCorpora \ MalformedCorpora,
          imagenes \in HybridSearchImagenes,
          usuarios \in ImageSearchUsuarios :
        LET out == HybridSearchResult(text_query, image_path, limit, svc, WithIds(corpus),
                                      WithIdImagen(imagenes), usuarios)
        IN  ReqDone([handler |-> "hybrid_search", text_query |-> text_query,
                     image_path |-> image_path, limit |-> limit, services |-> svc,
                     productos |-> WithIds(corpus), imagenes |-> WithIdImagen(imagenes),
                     usuarios |-> usuarios],
                    out.effects, out.response)

\* ------------------------------------------- the handlers that write

\* update_caption_by_title(db, title, new_caption) behind
\* /api/utils/update-caption; db is "ok" or "fails", found says whether a
\* document carries the title.
ApiUpdateCaptionResult(title, new_caption, db, found) ==
    IF Strip(title) = <<>> \/ Strip(new_caption) = <<>>
    THEN [effects |-> <<>>, response |-> [status |-> 400]]
    ELSE IF db # "ok"
    THEN [effects |-> <<>>, response |-> [status |-> 500]]
    ELSE [effects |-> <<"update_one_imagenes">>,
          response |-> [status |-> IF found THEN 200 ELSE 404]]

\* delete_by_title(db, fs, title) behind /api/utils/delete-image; archivo_id
\* says whether the document names a GridFS file.
ApiDeleteImageResult(title, db, found, archivo_id) ==
    IF Strip(title) = <<>>
    THEN [effects |-> <<>>, response |-> [status |-> 400]]
    ELSE IF db # "ok"
    THEN [effects |-> <<>>, response |-> [status |-> 500]]
    ELSE IF ~found
    THEN [effects |-> <<"find_one_imagenes">>, response |-> [status |-> 404]]
    ELSE [effects |-> <<"find_one_imagenes">>
                        \o (IF archivo_id THEN <<"gridfs_delete">> ELSE <<>>)
                        \o <<"delete_one_imagenes">>,
          response |-> [status |-> 200]]

\* POST /api/utils/update-caption
ApiUpdateCaption ==
    /\ ReqIdle
    /\ \E title \in {<<>>, <<"A">>}, new_caption \in {<<" ">>, <<"b">>},
          db \in {"ok", "fails"}, found \in BOOLEAN :
        LET out == ApiUpdateCaptionResult(title, new_caption, db, found)
        IN  ReqDone([handler |-> "api_update_caption", title |-> title,
                     new_caption |-> new_caption, db |-> db, found |-> found],
                    out.effects, out.response)

\* DELETE /api/utils/delete-image
ApiDeleteImage ==
    /\ ReqIdle
    /\ \E title \in {<<>>, <<"A">>}, db \in {"ok", "fails"}, found \in BOOLEAN,
          archivo_id \in BOOLEAN :
        LET out == ApiDeleteImageResult(title, db, found, archivo_id)
        IN  ReqDone([handler |-> "api_delete_image", title |-> title, db |-> db,
                     found |-> found, archivo_id |-> archivo_id],
                    out.effects, out.response)

\* ------------------------------------------- lazily initialised handles
\* app.run serves each request in a thread of its own.  A handle is the
\* number of the object it refers to, in order of construction; 0 is None.

Threads == 1..MaxThreads

Globals == {"_embedding_model", "_groq_client", "_clip_model", "_clip_processor"}

Getters == {"get_embedding_model", "get_groq_client", "get_clip_model"}

\* The global a getter tests against None.
GlobalOf(getter) ==
    CASE getter = "get_embedding_model" -> "_embedding_model"
      [] getter = "get_groq_client" -> "_groq_client"
      [] OTHER -> "_clip_model"

ThreadIdle == [pc |-> "idle", getter |-> "none", kind |-> "none", model |-> 0, processor |-> 0]

\* The thread's call has ended: it raised, or returned the handles it read
\* (get_clip_model a model and a processor, the others one handle).
Finished(thread, kind, model, processor) ==
    [thread EXCEPT !.pc = "returned", !.kind = kind, !.model = model,
                   !.processor = processor]

\* A thread calls a getter and tests the global: set, it goes on to return it;
\* None, it goes on to construct the object, unless GROQ_API_KEY is missing
\* (get_groq_client raises) or torch / transformers cannot be imported
\* (get_clip_model returns None, None, None).
LazyCall(t) ==
    /\ threads[t].pc = "idle"
    /\ \E getter \in Getters, env \in {"ok", "missing"} :
        LET call == [ThreadIdle EXCEPT !.getter = getter]
        IN  threads' = [threads EXCEPT ![t] =
                IF module_globals[GlobalOf(getter)] # 0
                THEN [call EXCEPT !.pc = "return"]
                ELSE IF env = "missing" /\ getter = "get_groq_client"
                THEN Finished(call, "raised", 0, 0)
                ELSE IF env = "missing" /\ getter = "get_clip_model"
                THEN Finished(call, "returned", 0, 0)
                ELSE [call EXCEPT !.pc = "construct"]]
    /\ UNCHANGED <<module_globals, constructed, rag_vars, search_vars, req_vars>>

\* The object is constructed and the global assigned; the constructor may
\* raise.  get_clip_model goes on to its processor.
LazyConstruct(t) ==
    /\ threads[t].pc = "construct"
    /\ LET g == GlobalOf(threads[t].getter)
       IN  \E loads \in BOOLEAN :
            IF loads
            THEN /\ constructed' = [constructed EXCEPT ![g] = @ + 1]
                 /\ module_globals' = [module_globals EXCEPT ![g] = constructed[g] + 1]
                 /\ threads' = [threads EXCEPT ![t].pc =
                        IF threads[t].getter = "get_clip_model" THEN "construct_processor"
                        ELSE "return"]
            ELSE /\ threads' = [threads EXCEPT ![t] = Finished(@, "raised", 0, 0)]
                 /\ UNCHANGED <<module_globals, constructed>>
    /\ UNCHANGED <<rag_vars, search_vars, req_vars>>

\* _clip_processor = CLIPProcessor.from_pretrained(model_name), which may raise.
ClipLoadProcessor(t) ==
    /\ threads[t].pc = "construct_processor"
    /\ \E loads \in BOOLEAN :
        IF loads
        THEN /\ constructed' = [constructed EXCEPT !["_clip_processor"] = @ + 1]
             /\ module_globals' = [module_globals EXCEPT !["_clip_processor"] =
                                        constructed["_clip_processor"] + 1]
             /\ threads' = [threads EXCEPT ![t].pc = "return"]
        ELSE /\ threads' = [threads EXCEPT ![t] = Finished(@, "raised", 0, 0)]
             /\ UNCHANGED <<module_globals, constructed>>
    /\ UNCHANGED <<rag_vars, search_vars, req_vars>>

\* return _embedding_model / _groq_client / (_clip_model, _clip_processor, device)
LazyReturn(t) ==
    /\ threads[t].pc = "return"
    /\ threads' = [threads EXCEPT ![t] =
            Finished(@, "returned", module_globals[GlobalOf(threads[t].getter)],
                     IF threads[t].getter = "get_clip_model"
                     THEN module_globals["_clip_processor"] ELSE 0)]
    /\ UNCHANGED <<module_globals, constructed, rag_vars, search_vars, req_vars>>

\* The request of the thread ends.
LazyFinish(t) ==
    /\ threads[t].pc = "returned"
    /\ threads' = [threads EXCEPT ![t] = ThreadIdle]
    /\ UNCHANGED <<module_globals, constructed, rag_vars, search_vars, req_vars>>

LazyNext ==
    \E t \in Threads :
        LazyCall(t) \/ LazyConstruct(t) \/ ClipLoadProcessor(t) \/ LazyReturn(t)
            \/ LazyFinish(t)

\* ------------------------------------------- RAGLLMIntegrator of rag_llm

\* Products the demo answer lists.
DEMO_ITEMS == 3

\* _setup_openai: the client is the openai module when OPENAI_API_KEY is set.
SetupOpenai(env) == IF env.openai_key THEN "openai" ELSE "none"

\* _setup_huggingface
SetupHuggingface(env) == IF env.hf_importable THEN "huggingface" ELSE "none"

\* _setup_client: the kind of client self.client holds afterwards ("none" for
\* None).  self.provider is left as the constructor set it.
SetupClient(provider, env) ==
    CASE provider = "groq" -> IF env.groq_importable THEN "groq" ELSE SetupOpenai(env)
      [] provider = "openai" -> SetupOpenai(env)
      [] provider = "huggingface" -> SetupHuggingface(env)
      [] OTHER -> "none"

\* _generate_demo_response: a fixed text around at most three products.
DemoResponse(n_products) ==
    [kind |-> "demo", text |-> <<"demo">>, items |-> Min(DEMO_ITEMS, n_products)]

\* The words of the prompt: the instructions and the query.
PromptWords(query) == <<"eres", "un", "asistente">> \o Split(query)

\* generate_rag_response(query, context) on an integrator built for provider
\* in environment env; completion is what the provider's call does: it raises
\* (<<>>) or returns a text (<<words>>, the empty text included).
GenerateRagResponse(provider, env, query, n_products, completion) ==
    LET client == SetupClient(provider, env)
        dispatched == client # "none" /\ provider \in {"groq", "openai", "huggingface"}
        demo == [response |-> DemoResponse(n_products), tokens_used |-> 0,
                 status |-> "success"]
    IN  [client |-> client,
         dispatch |-> IF dispatched THEN provider ELSE "none",
         effects |-> IF dispatched THEN <<"llm">> ELSE <<>>,
         response |->
            IF ~dispatched \/ IsNone(completion) THEN demo
            ELSE [response |-> [kind |-> "llm", text |-> completion[1], items |-> 0],
                  tokens_used |-> Len(PromptWords(query)) + Len(completion[1]),
                  status |-> "success"]]

RagLlmEnvs == [groq_importable : BOOLEAN, openai_key : BOOLEAN, hf_importable : BOOLEAN]

\* RAGLLMIntegrator(provider).generate_rag_response(query, context)
RagLlmGenerate ==
    /\ ReqIdle
    /\ \E provider \in {"groq", "openai", "huggingface", "demo"}, env \in RagLlmEnvs,
          n_products \in {0, 1, DEMO_ITEMS + 1},
          completion \in {<<>>, <<<<>>>>, <<<<"la", "respuesta">>>>} :
        LET out == GenerateRagResponse(provider, env, <<"a">>, n_products, completion)
        IN  ReqDoneWithLocals([handler |-> "generate_rag_response", provider |-> provider,
                               env |-> env, n_products |-> n_products,
                               completion |-> completion],
                              out.effects, out.response,
                              [handler |-> "generate_rag_response", client |-> out.client,
                               dispatch |-> out.dispatch])

\* ------------------------------------------- chat_interactive of rag/groq_rag

EXIT_COMMAND == <<"/", "e", "x", "i", "t">>
RESENAS_COMMAND == <<"/", "r", "e", "s", "e", "n", "a", "s", " ">>
PRODUCTOS_COMMAND == <<"/", "p", "r", "o", "d", "u", "c", "t", "o", "s", " ">>

\* s.startswith(prefix)
StartsWith(s, prefix) == Len(s) >= Len(prefix) /\ SubSeq(s, 1, Len(prefix)) = prefix

\* s.split(' ', 1)[1]: what follows the first space.
AfterFirstSpace(s) ==
    LET i == CHOOSE j \in 1..Len(s) : s[j] = " " /\ \A k \in 1..(j - 1) : s[k] # " "
    IN  SubSeq(s, i + 1, Len(s))

\* rag_query_productos(question, num_results=5); search is what
\* search_productos does: it raises ("raises") or finds n_found products.
rag_query_productos(question, search, n_found) ==
    IF search = "raises" THEN Raised
    ELSE IF n_found = 0
    THEN Returned([pregunta |-> question, respuesta |-> "sin_productos", num_fuentes |-> 0])
    ELSE Returned([pregunta |-> question, respuesta |-> "groq", num_fuentes |-> n_found])

\* rag_query_resenas(question, num_results=5)
rag_query_resenas(question, search, n_found) ==
    IF search = "raises" THEN Raised
    ELSE IF n_found = 0
    THEN Returned([pregunta |-> question, respuesta |-> "sin_resenas",
                   num_resenas_analizadas |-> 0])
    ELSE Returned([pregunta |-> question, respuesta |-> "groq",
                   num_resenas_analizadas |-> n_found])

\* One pass of the loop of chat_interactive: what it prints and whether the
\* loop goes on.  typed is what input() does: a line, KeyboardInterrupt or
\* EOFError.
ChatPass(typed, search, n_found) ==
    LET question == Strip(typed.line)
        result == IF StartsWith(Lower(question), RESENAS_COMMAND)
                  THEN rag_query_resenas(AfterFirstSpace(question), search, n_found)
                  ELSE IF StartsWith(Lower(question), PRODUCTOS_COMMAND)
                  THEN rag_query_productos(AfterFirstSpace(question), search, n_found)
                  ELSE rag_query_productos(question, search, n_found)
    IN  IF typed.kind = "interrupt"
        THEN [printed |-> <<"chat_interrumpido">>, loop |-> "ended"]
        ELSE IF typed.kind = "eof"
        THEN [printed |-> <<"error">>, loop |-> "goes_on"]
        ELSE IF question = <<>>
        THEN [printed |-> <<>>, loop |-> "goes_on"]
        ELSE IF Lower(question) = EXIT_COMMAND
        THEN [printed |-> <<"hasta_luego">>, loop |-> "ended"]
        ELSE IF result.raised
        THEN [printed |-> <<"error">>, loop |-> "goes_on"]
        ELSE IF "num_fuentes" \notin DOMAIN result.value
        THEN [printed |-> <<"asistente", "respuesta", "error">>, loop |-> "goes_on"]
        ELSE [printed |-> <<"asistente", "respuesta", "fuentes">>, loop |-> "goes_on"]

\* What the user does at the prompt.
ChatTyped ==
    {[kind |-> "interrupt", line |-> <<>>], [kind |-> "eof", line |-> <<>>]}
        \cup {[kind |-> "line", line |-> l] :
                l \in {<<>>, <<" ">>, EXIT_COMMAND, <<" ">> \o EXIT_COMMAND, <<"a">>,
                       <<"a", " ", "b">>, <<"/", "a">>, RESENAS_COMMAND,
                       RESENAS_COMMAND \o <<"a">>, PRODUCTOS_COMMAND \o <<"a">>,
                       PRODUCTOS_COMMAND \o <<"a", " ", "b">>}}

\* The prompt of chat_interactive is answered.
ChatInteractive ==
    /\ ReqIdle
    /\ \E typed \in ChatTyped, search \in {"ok", "raises"}, n_found \in {0, 1, 5} :
        LET out == ChatPass(typed, search, n_found)
        IN  ReqDone([handler |-> "chat_interactive", typed |-> typed, search |-> search,
                     n_found |-> n_found],
                    out.printed, [status |-> out.loop])

\* The caller has its result.
ReqReturn ==
    /\ req_pc = "done"
    /\ req_pc' = "idle"
    /\ req_call' = NoRequest
    /\ req_effects' = <<>>
    /\ req_response' = NoOutcome
    /\ req_locals' = NoLocals
    /\ UNCHANGED <<rag_vars, search_vars, db_write_calls, lazy_vars>>

Init ==
    /\ rag_pc = "idle"
    /\ rag_repeated = FALSE
    /\ max_products = 0
    /\ productos_texto = <<>>
    /\ productos_imagen = <<>>
    /\ productos_fusionados = <<>>
    /\ productos_ordenados = <<>>
    /\ respuesta_json = NoResponse
    /\ search_pc = "idle"
    /\ search_call = NoCall
    /\ search_corpus = <<>>
    /\ search_locals = <<>>
    /\ search_resultados = <<>>
    /\ search_returned = <<>>
    /\ req_pc = "idle"
    /\ req_call = NoRequest
    /\ req_effects = <<>>
    /\ req_response = NoOutcome
    /\ req_locals = NoLocals
    /\ db_write_calls = 0
    /\ module_globals = [g \in Globals |-> 0]
    /\ constructed = [g \in Globals |-> 0]
    /\ threads = [t \in Threads |-> ThreadIdle]

Next == RagQuery \/ RagQueryRepeat \/ RagReturn

Spec == Init /\ [][Next]_vars

SearchNext == SearchProducts \/ SearchProductsBackup \/ SearchProductos \/ SearchReturn

SpecSearch == Init /\ [][SearchNext]_vars

CosineNext == CosineVectorSearch \/ CosineWebApp \/ CosineWebAppBackup \/ ReqReturn

SpecCosine == Init /\ [][CosineNext]_vars

RagFlowNext == RagQueryWithServices \/ Ragtech \/ HybridSearch \/ ReqReturn

\* The request handlers whose services can fail, one call at a time.
SpecRagFlow == Init /\ [][RagFlowNext]_vars

BadEmbeddingNext ==
    SearchProducts \/ RagQueryWithServices \/ ApiProductsSearchByImage \/ SearchReturn
        \/ ReqReturn

\* The handlers that compare the query with stored vectors themselves.
SpecBadEmbedding == Init /\ [][BadEmbeddingNext]_vars

RetrievalNext ==
    SearchProductos \/ SearchProducts \/ SearchResenas \/ SearchByImage
        \/ RagQueryWithServices \/ SearchReturn \/ ReqReturn

\* Every operation that hands retrieval results to a caller.
SpecRetrieval == Init /\ [][RetrievalNext]_vars

StoreNext ==
    SearchResenas \/ SearchByImage \/ HybridSearch \/ Ragtech \/ RagQueryWithServices
        \/ ApiUpdateCaption \/ ApiDeleteImage \/ ReqReturn

\* The retrieval and answer operations beside the handlers that write.
SpecStore == Init /\ [][StoreNext]_vars

\* The request threads in the getters of the process-wide handles.
SpecLazy == Init /\ [][LazyNext]_vars

AnswerNext == RagLlmGenerate \/ ChatInteractive \/ ReqReturn

\* The answer generators outside web_app.
SpecAnswer == Init /\ [][AnswerNext]_vars

ImageNext == SearchResenas \/ SearchByImage \/ ApiProductsSearchByImage \/ ReqReturn

SpecImage == Init /\ [][ImageNext]_vars

\* ================================================================ properties

TextKeys == {FusionKey(productos_texto[i]) : i \in 1..Len(productos_texto)}

ImageKeys ==
    {FusionKey(productos_imagen[i].producto_info) : i \in 1..Len(productos_imagen)}

\* The score the text retriever gave the hit that carries key k.
GivenTextScore(k) ==
    LET i == CHOOSE j \in 1..Len(productos_texto) : FusionKey(productos_texto[j]) = k
    IN  productos_texto[i].text_similarity

\* The score the image retriever gave the last hit that carries key k.
GivenImageScore(k) ==
    LET i == CHOOSE j \in 1..Len(productos_imagen) :
                 /\ FusionKey(productos_imagen[j].producto_info) = k
                 /\ \A l \in (j + 1)..Len(productos_imagen) :
                        FusionKey(productos_imagen[l].producto_info) # k
    IN  productos_imagen[i].image_similarity

EntryKey(e) == FusionKey(e.producto)

FusedEntries ==
    {productos_fusionados[i].value : i \in 1..Len(productos_fusionados)}
        \cup {productos_ordenados[i] : i \in 1..Len(productos_ordenados)}

\* C1: after fusion every entry carries the scores its retrievers gave and the
\* blend of its case (an item is in a list when a hit of that list carries the
\* entry's fusion key): both lists 0.6 text + 0.4 image; text only image_score 0
\* and 0.7 text; image only text_score 0 and 0.4 image.
C1_FusionWeights ==
    rag_pc = "done" =>
        \A e \in FusedEntries :
            LET k == EntryKey(e)
            IN  /\ k \in TextKeys \cup ImageKeys
                /\ (k \in TextKeys /\ k \in ImageKeys) =>
                        /\ e.text_score = GivenTextScore(k)
                        /\ e.image_score = GivenImageScore(k)
                        /\ e.hybrid_score = 6 * e.text_score + 4 * e.image_score
                /\ (k \in TextKeys /\ k \notin ImageKeys) =>
                        /\ e.text_score = GivenTextScore(k)
                        /\ e.image_score = 0
                        /\ e.hybrid_score = 7 * e.text_score
                /\ (k \notin TextKeys /\ k \in ImageKeys) =>
                        /\ e.text_score = 0
                        /\ e.image_score = GivenImageScore(k)
                        /\ e.hybrid_score = 4 * e.image_score

\* A response whose fused list holds an entry of each of the three cases, the
\* one found by both lists with non-zero scores.
C1_Witness ==
    /\ rag_pc = "done"
    /\ \E a, b, c \in FusedEntries :
        /\ EntryKey(a) \in TextKeys \cap ImageKeys
        /\ a.text_score > 0 /\ a.image_score > 0
        /\ EntryKey(b) \in TextKeys \ ImageKeys /\ b.text_score > 0
        /\ EntryKey(c) \in ImageKeys \ TextKeys /\ c.image_score > 0

\* C2: the returned list is ordered by non-increasing hybrid_score, has at most
\* max_products entries, and metadata.total_productos is the length of the
\* productos array.
C2_RankedAndCapped ==
    rag_pc = "done" =>
        /\ IsNonIncreasing(productos_ordenados, "hybrid_score")
        /\ IsNonIncreasing(respuesta_json.productos, "hybrid_score")
        /\ Len(productos_ordenados) <= max_products
        /\ Len(respuesta_json.productos) <= max_products
        /\ respuesta_json.metadata.total_productos = Len(respuesta_json.productos)

\* A response cut to max_products out of more fused entries, with two
\* different scores in it.
C2_Witness ==
    /\ rag_pc = "done"
    /\ Len(productos_fusionados) > max_products
    /\ Len(respuesta_json.productos) = max_products
    /\ max_products >= 2
    /\ respuesta_json.productos[1].hybrid_score > respuesta_json.productos[2].hybrid_score

HitItems ==
    {ItemId(productos_texto[i]) : i \in 1..Len(productos_texto)}
        \cup {ItemId(productos_imagen[i].producto_info) : i \in 1..Len(productos_imagen)}

\* C3: the fused dict is deduplicated on item identity: no item identifier is
\* held by two entries, and every item a retriever returned has an entry of
\* its own (distinct items are not collapsed into one).
C3_DedupOnIdentity ==
    rag_pc = "done" =>
        /\ \A i, j \in 1..Len(productos_fusionados) :
                i # j => ItemId(productos_fusionados[i].value.producto)
                            # ItemId(productos_fusionados[j].value.producto)
        /\ \A c \in HitItems :
                \E i \in 1..Len(productos_fusionados) :
                    ItemId(productos_fusionados[i].value.producto) = c

\* C4 as stated: entries of equal hybrid_score are ordered by item identifier
\* ascending.
C4_TieBreakById ==
    rag_pc = "done" =>
        \A i, j \in 1..Len(productos_ordenados) :
            (i < j /\ productos_ordenados[i].hybrid_score = productos_ordenados[j].hybrid_score)
                => IdRank(ItemId(productos_ordenados[i].producto))
                        <= IdRank(ItemId(productos_ordenados[j].producto))

\* C4 amended: entries of equal hybrid_score keep the order in which fusion
\* first inserted their keys (text hits in the retriever's order, then the
\* image-only hits in the retriever's order).
C4_TieKeepsInsertionOrder ==
    rag_pc = "done" =>
        \A i, j \in 1..Len(productos_ordenados) :
            (i < j /\ productos_ordenados[i].hybrid_score = productos_ordenados[j].hybrid_score)
                => DictIndex(productos_fusionados, EntryKey(productos_ordenados[i]))
                        < DictIndex(productos_fusionados, EntryKey(productos_ordenados[j]))

\* Two returned entries of equal score, the one with the larger identifier first.
C4_Witness ==
    /\ rag_pc = "done"
    /\ \E i, j \in 1..Len(productos_ordenados) :
        /\ i < j
        /\ productos_ordenados[i].hybrid_score = productos_ordenados[j].hybrid_score
        /\ IdRank(ItemId(productos_ordenados[i].producto))
                > IdRank(ItemId(productos_ordenados[j].producto))

ReturnedId(r) == IF "idProducto" \in DOMAIN r THEN r.idProducto ELSE r.id

\* The stored product a returned item or a scored local stands for.
StoredProduct(id) == search_corpus[id]

HybridHandlers == {"search_products", "search_products_backup"}

\* C6: text search (search_products of web_app, search_productos of
\* search/vector_search) never returns an item whose text embedding is absent
\* or empty, and never returns more than limit items.
C6_EmbeddedAndWithinLimit ==
    (search_pc = "done" /\ search_call.handler \in {"search_products", "search_productos"})
        => /\ Len(search_returned) <= search_call.limit
           /\ \A i \in 1..Len(search_returned) :
                LET stored == StoredProduct(ReturnedId(search_returned[i]))
                IN  /\ "descripcionEmbedding" \in DOMAIN stored
                    /\ stored.descripcionEmbedding # <<>>

\* The threshold in force for a call: min_score where the handler takes one,
\* the default 0.3 otherwise.
ThresholdOf(call) == IF "min_score" \in DOMAIN call THEN call.min_score ELSE 3000

\* The score a returned item is ranked by.
RankingScore(r) ==
    CASE search_call.handler = "search_products" -> r.similarity
      [] search_call.handler = "search_products_backup" -> r.hybrid_score
      [] OTHER -> r.search_score

\* C7, as stated: every item text search returns has a ranking score greater
\* than or equal to the minimum score threshold (default 0.3).
C7_ScoreAtLeastThreshold ==
    search_pc = "done"
        => \A i \in 1..Len(search_returned) :
                RankingScore(search_returned[i]) >= ThresholdOf(search_call)

\* C7, amended: search_productos returns only items whose cosine similarity,
\* returned as search_score, is at least min_score (default 0.3), and no item
\* below it; the threshold is that of search_productos alone.
C7_MinScoreOnCosineOnly ==
    (search_pc = "done" /\ search_call.handler = "search_productos")
        => \A i \in 1..Len(search_returned) :
            LET r == search_returned[i]
                stored == StoredProduct(r.idProducto)
            IN  /\ r.search_score >= search_call.min_score
                /\ r.search_score = CosineSimilarity(stored.descripcionEmbedding)

\* search_productos under the default min_score kept one product at the
\* threshold and discarded one below it.
C7_Witness ==
    /\ search_pc = "done"
    /\ search_call.handler = "search_productos"
    /\ search_call.min_score = 3000
    /\ search_call.limit = 2
    /\ Len(search_locals) = 2
    /\ Len(search_returned) = 1
    /\ search_returned[1].search_score = 3000
    /\ \E i \in 1..Len(search_locals) :
        /\ search_locals[i].descripcionEmbedding # <<>>
        /\ CosineSimilarity(search_locals[i].descripcionEmbedding) < 3000

\* The words of q: the maximal runs of characters that are not whitespace,
\* each given by its first and last position.
QueryWordSpans(q) ==
    {sp \in (1..Len(q)) \X (1..Len(q)) :
        /\ sp[1] <= sp[2]
        /\ \A k \in sp[1]..sp[2] : ~IsSpace(q[k])
        /\ sp[1] = 1 \/ IsSpace(q[sp[1] - 1])
        /\ sp[2] = Len(q) \/ IsSpace(q[sp[2] + 1])}

\* The four texts of a product a query word is looked for in, lower-cased.
SearchedTexts(producto) ==
    {Lower(producto.nombre), Lower(producto.descripcion),
     Lower(producto.categoria.nombre), Lower(producto.marca.nombre)}

\* The number of words of q found in one of the texts of the product.
WordsFound(q, producto) ==
    Cardinality({sp \in QueryWordSpans(q) :
        \E text \in SearchedTexts(producto) : Contains(SubSeq(q, sp[1], sp[2]), text)})

\* C8: keyword_score of an item is the number of words of the lower-cased
\* query that are substrings of the item's name, description, category name or
\* brand name (lower-cased and joined by single spaces, so that a word never
\* spans two of them), divided by the number of query words; it is 0 for a
\* query without words and always lies in [0, 1].
C8_KeywordScore ==
    (search_pc = "done" /\ search_call.handler \in HybridHandlers)
        => /\ \A i \in 1..Len(search_locals) :
                LET loc == search_locals[i]
                    q == Lower(search_call.query)
                    total == Cardinality(QueryWordSpans(q))
                    found == WordsFound(q, StoredProduct(loc.id))
                IN  /\ loc.kw_den > 0
                    /\ total = 0 => loc.kw_num = 0
                    /\ total > 0 => loc.kw_num * total = found * loc.kw_den
                    /\ 0 <= loc.kw_num /\ loc.kw_num <= loc.kw_den
           /\ \A i \in 1..Len(search_returned) :
                search_returned[i].keyword_score \in 0..ONE

\* A query of two words of which the returned item holds exactly one.
C8_Witness ==
    /\ search_pc = "done"
    /\ search_call.handler = "search_products"
    /\ Len(search_returned) = 1
    /\ Cardinality(QueryWordSpans(Lower(search_call.query))) = 2
    /\ WordsFound(Lower(search_call.query), StoredProduct(1)) = 1
    /\ search_returned[1].keyword_score = 5000

\* C9: exact_match_boost is 0.3 when the lower-cased, trimmed query is a
\* substring of the item name, otherwise 0.25 when it is a substring of the
\* category name, otherwise 0; the name takes precedence and the boost takes
\* no other value.
C9_ExactMatchBoost ==
    (search_pc = "done" /\ search_call.handler \in HybridHandlers)
        => \A i \in 1..Len(search_locals) :
            LET loc == search_locals[i]
                q == Strip(Lower(search_call.query))
                stored == StoredProduct(loc.id)
                inName == Contains(q, Lower(stored.nombre))
                inCategory == Contains(q, Lower(stored.categoria.nombre))
            IN  /\ inName => loc.exact_match_boost = 3000
                /\ (~inName /\ inCategory) => loc.exact_match_boost = 2500
                /\ (~inName /\ ~inCategory) => loc.exact_match_boost = 0
                /\ loc.exact_match_boost \in {0, 2500, 3000}

\* A query with a word found in both the name and the category of the item,
\* boosted by 0.3.
C9_Witness ==
    /\ search_pc = "done"
    /\ search_call.handler = "search_products"
    /\ Strip(Lower(search_call.query)) # <<>>
    /\ \E i \in 1..Len(search_returned) :
        LET stored == StoredProduct(ReturnedId(search_returned[i]))
            q == Strip(Lower(search_call.query))
        IN  /\ Contains(q, Lower(stored.nombre))
            /\ Contains(q, Lower(stored.categoria.nombre))
            /\ search_returned[i].exact_match_boost = 3000

\* The local values of the returned item at position i.
LocalsOfReturned(i) ==
    CHOOSE loc \in {search_locals[k] : k \in 1..Len(search_locals)} :
        loc.id = ReturnedId(search_returned[i])

\* hybrid_score = 0.6 * semantic_similarity + 0.3 * keyword_score +
\* exact_match_boost for every scored item, and at most 1.2 for a semantic
\* similarity of at most 1.
HybridFormulaHolds ==
    \A i \in 1..Len(search_locals) :
        LET loc == search_locals[i]
            semantic == StoredProduct(loc.id).descripcionEmbedding[1]
        IN  /\ loc.semantic_similarity = semantic
            /\ loc.hybrid_num = 6 * semantic * loc.kw_den + 3 * loc.kw_num * ONE
                                    + 10 * loc.exact_match_boost * loc.kw_den
            /\ semantic <= ONE => loc.hybrid_num <= 12 * ONE * loc.kw_den

IsZeroVector(v) == \A i \in 1..Len(v) : v[i] = 0

ImagesAtLeast(imagenes, s) ==
    {i \in 1..Len(imagenes) :
        /\ "clipEmbedding" \in DOMAIN imagenes[i]
        /\ CosineSimilarity(imagenes[i].clipEmbedding) >= s}

\* C12: search_by_image keeps the images whose similarity is at least 0.1 and
\* drops those below it; it returns the kept images best first, at most limit
\* of them, each with its similarity and the identifier of its item.
C12_ImageThreshold ==
    (req_pc = "done" /\ req_call.handler = "search_by_image" /\ req_response.status = "ok")
        => LET similares == req_response.body.productos_similares
           IN  /\ Len(similares) = Min(req_call.limit,
                                       Cardinality(ImagesAtLeast(req_call.imagenes, 1000)))
               /\ \A i \in 1..Len(similares) :
                    /\ similares[i].imagen_similar.similarity_score >= 1000
                    /\ "idProducto" \in DOMAIN similares[i]
               /\ \A i, j \in 1..Len(similares) :
                    i < j => similares[i].imagen_similar.similarity_score
                                >= similares[j].imagen_similar.similarity_score

\* No image of the collection read by the call carries an image embedding:
\* the field is absent, null or an empty list.
NoImageEmbedding ==
    IF req_call.handler = "search_by_image"
    THEN \A i \in 1..Len(req_call.imagenes) :
            "clipEmbedding" \in DOMAIN req_call.imagenes[i]
                => req_call.imagenes[i].clipEmbedding = <<>>
    ELSE \A i \in 1..Len(req_call.imagenes) :
            "imagen_embedding_clip" \in DOMAIN req_call.imagenes[i]
                => \/ req_call.imagenes[i].imagen_embedding_clip = Null
                   \/ req_call.imagenes[i].imagen_embedding_clip = Embedding(0, 0)

\* The call is a search_by_image whose image exists and can be encoded.
ImageSearchReachesStore ==
    /\ req_pc = "done"
    /\ req_call.handler = "search_by_image"
    /\ req_call.services.clip = "ok"
    /\ req_call.services.path_exists

\* The call is a request to the handler that passed validation and whose query
\* was encoded.
ApiSearchReachesStore ==
    /\ req_pc = "done"
    /\ req_call.handler = "api_products_search_by_image"
    /\ \/ req_call.request.mode = "image" /\ req_call.request.encoder = "ok"
       \/ /\ req_call.request.mode = "description"
          /\ Strip(req_call.request.description) # <<>>
          /\ req_call.request.encoder # "raises"

\* The handler searched by hand: vector search failed, or the query vector is
\* not a CLIP vector.
ApiSearchByHand ==
    req_call.vector_search = "fails" \/ req_call.request.encoder = "unavailable"

QueryDisplayed ==
    IF req_call.request.mode = "image"
    THEN <<"I", "m", "a", "g", "e", "n">>
    ELSE Strip(req_call.request.description)

\* The products of the catalog one of whose texts holds the text, letter case
\* aside.
ProductsMatchingText(text) ==
    {i \in 1..Len(WebCatalog) :
        \E f \in {"nombre", "descripcion", "marca_nombre"} :
            /\ f \in DOMAIN WebCatalog[i]
            /\ Contains(Lower(text), Lower(WebCatalog[i][f]))}

\* No image carries the field imagen_embedding_clip with a value.
NoClipField ==
    \A i \in 1..Len(req_call.imagenes) :
        "imagen_embedding_clip" \in DOMAIN req_call.imagenes[i]
            => req_call.imagenes[i].imagen_embedding_clip = Null

IsBlank(text) == Strip(text) = <<>>

RagServed == req_pc = "done" /\ req_call.handler = "rag_query"

\* C15: a request whose query text is empty or whitespace-only and that carries
\* no image is rejected as invalid input before any encoder call or store read:
\* rag_query and ragtech answer 400, and hybrid_search called with neither a
\* text_query nor an image_path (or with a blank text_query and no image_path)
\* fails instead of returning a result.
C15_BlankQueryRejected ==
    /\ (RagServed /\ IsBlank(req_call.request.query))
            => (req_response.status = 400 /\ req_effects = <<>>)
    /\ (req_pc = "done" /\ req_call.handler = "ragtech" /\ req_call.body = "query"
            /\ IsBlank(req_call.query))
            => (req_response.status = 400 /\ req_effects = <<>>)
    /\ (req_pc = "done" /\ req_call.handler = "hybrid_search"
            /\ IsNone(req_call.image_path)
            /\ (IsNone(req_call.text_query) \/ IsBlank(req_call.text_query[1])))
            => (req_response.status # "ok" /\ req_effects = <<>>)

\* C16: when the generation call fails and retrieval produced at least one
\* candidate, the response carries the non-empty candidate list and its answer
\* is the templated summary of the top 3 candidates, not an error message.
C16_TemplateOnGenerationFailure ==
    (RagServed /\ req_call.services.llm = "fails" /\ req_response.status = 200
        /\ req_response.productos # <<>>)
        => /\ req_response.rag_response.kind = "template"
           /\ Len(req_response.rag_response.items)
                = Min(TEMPLATE_ITEMS, Len(req_response.productos))

\* Encoding the query for the image modality was attempted and failed.
ClipEncodingFailed ==
    /\ RagServed
    /\ ~IsBlank(req_call.request.query)
    /\ req_call.request.include_images
    /\ req_call.services.text_encoder = "ok"
    /\ req_call.services.clip = "raises"

Ran(effect) == \E i \in 1..Len(req_effects) : req_effects[i] = effect

\* C17: if encoding the query for the image modality fails, text retrieval,
\* fusion, review aggregation and generation still run and the request succeeds
\* with text-only candidates: every returned candidate has image_score 0 and
\* hybrid_score 0.7 * text_score.
C17_TextOnlyWhenClipFails ==
    ClipEncodingFailed
        => /\ req_response.status = 200
           /\ Ran("aggregate_productos") /\ Ran("llm") /\ ~Ran("aggregate_imagenes")
           /\ (req_call.request.include_reviews /\ req_response.productos # <<>>)
                => Ran("aggregate_resenas")
           /\ \A i \in 1..Len(req_response.productos) :
                LET c == req_response.productos[i]
                IN  /\ c.image_similarity = 0
                    /\ c.hybrid_score = RoundDiv(W_TEXT_ONLY * c.text_similarity, 10)

\* The manual text search of the request met an embedding of another length.
ManualTextSearchRaised ==
    /\ RagServed
    /\ req_call.services.text_search = "fails"
    /\ \E i \in 1..Len(req_call.productos) :
        /\ "descripcion_embedding" \in DOMAIN req_call.productos[i]
        /\ req_call.productos[i].descripcion_embedding.dim \notin {0, TEXT_DIM}

\* C18: unavailability of the text encoder is non-fatal to rag_query: the text
\* modality degrades to an empty candidate set and the request still
\* completes, returning the image-modality candidates if any.
C18_TextEncoderFailureNotFatal ==
    (RagServed /\ ~IsBlank(req_call.request.query)
        /\ req_call.services.text_encoder = "fails")
        => /\ req_response.status = 200
           /\ \A i \in 1..Len(req_response.productos) :
                req_response.productos[i].text_similarity = 0

\* C19: in every successful rag_query response, search_modes.image_search is
\* true only when a query vector in the image space was produced and the image
\* retrieval completed without error, and text_search is true only when text
\* retrieval completed.
C19_SearchModesReportWhatRan ==
    (RagServed /\ req_response.status = 200)
        => LET modes == req_response.metadata.search_modes
           IN  /\ modes.image_search
                    => /\ req_call.request.include_images
                       /\ req_call.services.clip = "ok"
                       /\ req_call.services.image_search = "ok"
               /\ modes.text_search
                    => (Ran("aggregate_productos") /\ ~ManualTextSearchRaised)

\* --------------------------------------- embeddings of another length

\* The stored products of a search_products call whose embedding has the
\* length of the query vector, and those whose embedding has another length.
WellFormedProducts ==
    {i \in 1..Len(search_corpus) :
        HasEmbedding(search_corpus[i]) /\ ~IsMalformed(search_corpus[i].descripcionEmbedding)}

MalformedProducts ==
    {i \in 1..Len(search_corpus) :
        HasEmbedding(search_corpus[i]) /\ IsMalformed(search_corpus[i].descripcionEmbedding)}

\* The documents of the manual text search of rag_query, by their embedding.
StoreDocsOfDim(dims) ==
    {i \in 1..Len(req_call.productos) :
        /\ "descripcion_embedding" \in DOMAIN req_call.productos[i]
        /\ req_call.productos[i].descripcion_embedding.dim \in dims}

\* The principal images the manual image search of the handler compares, by
\* their embedding.
ImagesOfDim(dims) ==
    {i \in 1..Len(req_call.imagenes) :
        LET img == req_call.imagenes[i]
        IN  /\ "es_principal" \in DOMAIN img
            /\ "imagen_embedding_clip" \in DOMAIN img
            /\ img.imagen_embedding_clip # Null
            /\ img.imagen_embedding_clip.dim \in dims}

\* C20: when one stored embedding has a length different from the query
\* vector's, only that candidate is skipped: every other candidate with a
\* well-formed embedding is still scored and can be returned, and the request
\* does not fail; in search_products, in the manual fallback of rag_query and
\* in the manual fallback of api_products_search_by_image.
C20_OnlyMalformedSkipped ==
    /\ (search_pc = "done" /\ search_call.handler = "search_products"
            /\ Cardinality(MalformedProducts) = 1)
            => Len(search_returned)
                    = Min(search_call.limit, Cardinality(WellFormedProducts))
    /\ (RagServed /\ ~IsBlank(req_call.request.query)
            /\ req_call.services.text_encoder = "ok"
            /\ req_call.services.text_search = "fails"
            /\ Cardinality(StoreDocsOfDim({CLIP_DIM})) = 1)
            => /\ req_response.status = 200
               /\ Len(req_response.productos)
                    >= Min(req_call.request.max_products,
                           Cardinality(StoreDocsOfDim({TEXT_DIM})))
    /\ (ApiSearchReachesStore /\ req_call.vector_search = "fails"
            /\ req_call.request.encoder = "ok"
            /\ Cardinality(ImagesOfDim({TEXT_DIM})) = 1)
            => /\ req_response.status = 200
               /\ Len(req_response.results)
                    = Min(req_call.limit, Cardinality(ImagesOfDim({CLIP_DIM})))

\* ------------------------------------------------ embeddings stay inside

EmbeddingFields ==
    {"descripcionEmbedding", "descripcion_embedding", "contenidoEmbedding",
     "contenido_embedding", "clipEmbedding", "imagen_embedding_clip"}

NoEmbeddingIn(item) == DOMAIN item \cap EmbeddingFields = {}

\* C11: no retrieval result handed to a caller contains an embedding vector:
\* every item returned by search_productos, search_resenas, search_by_image
\* and search_products, and every candidate of rag_query's productos array,
\* has its embedding field removed or omitted, on the vector-search path and
\* on the manual fallback path alike.
C11_NoEmbeddingReturned ==
    /\ (search_pc = "done" /\ search_call.handler \in {"search_productos", "search_products"})
            => \A i \in 1..Len(search_returned) : NoEmbeddingIn(search_returned[i])
    /\ (req_pc = "done" /\ req_call.handler = "search_resenas")
            => \A i \in 1..Len(req_response.body) :
                /\ NoEmbeddingIn(req_response.body[i])
                /\ NoEmbeddingIn(req_response.body[i].resena)
    /\ (req_pc = "done" /\ req_call.handler = "search_by_image"
            /\ req_response.status = "ok")
            => /\ \A i \in 1..Len(req_response.body.productos_similares) :
                    LET p == req_response.body.productos_similares[i]
                    IN  NoEmbeddingIn(p) /\ NoEmbeddingIn(p.imagen_similar)
               /\ "resenas_relacionadas" \in DOMAIN req_response.body
                    => \A i \in 1..Len(req_response.body.resenas_relacionadas) :
                        LET r == req_response.body.resenas_relacionadas[i]
                        IN  NoEmbeddingIn(r) /\ NoEmbeddingIn(r.resena)
    /\ (RagServed /\ req_response.status = 200)
            => \A i \in 1..Len(req_response.productos) :
                NoEmbeddingIn(req_response.productos[i])

\* search_productos returned two products, each stored with a non-empty
\* embedding.
C11_Witness ==
    /\ search_pc = "done"
    /\ search_call.handler = "search_productos"
    /\ Len(search_returned) = 2
    /\ \A i \in 1..2 :
        StoredProduct(search_returned[i].idProducto).descripcionEmbedding # <<>>

\* C27 as stated: gaining an image match never lowers the fused score: an item
\* found by text with text_score t and also by image has a hybrid_score of at
\* least the 0.7 t it would have had as a text-only hit.
C27_ImageMatchNeverLowers ==
    rag_pc = "done" =>
        \A i \in 1..Len(productos_fusionados) :
            LET k == productos_fusionados[i].key
                e == productos_fusionados[i].value
            IN  (k \in TextKeys /\ k \in ImageKeys) =>
                    e.hybrid_score >= W_TEXT_ONLY * GivenTextScore(k)

\* C27: for an item found by text (text_score t) and by image (image_score i)
\* the fused score is at least the text-only score 0.7 t exactly when
\* i >= t / 4; with a lower image_score the blend 0.6 t + 0.4 i is below 0.7 t.
C27_ImageMatchLowersBelowQuarter ==
    rag_pc = "done" =>
        \A i \in 1..Len(productos_fusionados) :
            LET k == productos_fusionados[i].key
                e == productos_fusionados[i].value
            IN  (k \in TextKeys /\ k \in ImageKeys) =>
                    (e.hybrid_score >= W_TEXT_ONLY * GivenTextScore(k)
                        <=> W_IMAGE * GivenImageScore(k)
                                >= (W_TEXT_ONLY - W_TEXT) * GivenTextScore(k))

\* A response with two items found by both retrievers: one whose image match
\* lowered its score below the text-only score, one whose image match raised it.
C27_Witness ==
    /\ rag_pc = "done"
    /\ \E i, j \in 1..Len(productos_fusionados) :
        LET a == productos_fusionados[i]
            b == productos_fusionados[j]
        IN  /\ a.key \in TextKeys \cap ImageKeys
            /\ b.key \in TextKeys \cap ImageKeys
            /\ GivenTextScore(a.key) > 0
            /\ a.value.hybrid_score < W_TEXT_ONLY * GivenTextScore(a.key)
            /\ b.value.hybrid_score > W_TEXT_ONLY * GivenTextScore(b.key)

\* A boosted product matches every query word, and its hybrid_score is at
\* least 0.6 semantic_similarity + 0.55 (hybrid_num is hybrid_score * 10 * kw_den).
BoostedMatchEveryWord ==
    \A i \in 1..Len(search_locals) :
        LET loc == search_locals[i]
        IN  loc.exact_match_boost > 0 =>
                /\ loc.kw_num = loc.kw_den
                /\ loc.hybrid_num >=
                        (loc.semantic_similarity * W_SEMANTIC + W_KEYWORD * ONE
                            + 10 * BOOST_CATEGORY) * loc.kw_den

\* C26 as stated: in search_products, for every non-empty query and every item,
\* exact_match_boost > 0 implies keyword_score = 1, and the boosted item's
\* hybrid_score is at least 0.6 semantic_similarity + 0.55.
C26_BoostImpliesKeywordOne ==
    (search_pc = "done" /\ search_call.handler = "search_products"
        /\ search_call.query # <<>>)
            => BoostedMatchEveryWord

\* C26: the same for every query that holds a character other than whitespace;
\* a query of whitespace alone has no words, so every product is boosted with
\* keyword_score 0.
C26_BoostImpliesKeywordOneWithWords ==
    (search_pc = "done" /\ search_call.handler = "search_products"
        /\ Strip(search_call.query) # <<>>)
            => BoostedMatchEveryWord

\* A call whose query has whitespace around its one word, on a product boosted
\* through its category only.
C26_Witness ==
    /\ search_pc = "done"
    /\ search_call.handler = "search_products"
    /\ Strip(search_call.query) # <<>>
    /\ Strip(search_call.query) # search_call.query
    /\ \E i \in 1..Len(search_locals) :
        /\ search_locals[i].exact_match_boost = BOOST_CATEGORY
        /\ search_locals[i].kw_num = search_locals[i].kw_den

RelevanciaRank(r) == CASE r = "alta" -> 1 [] r = "texto" -> 2 [] OTHER -> 3

\* C29: hybrid_search fills productos_combinados only when both a text query
\* and an image are given; the list has at most limit entries, lists "alta"
\* before "texto" before "imagen", and holds each idProducto at most once.
C29_CombinedListDistinct ==
    (req_pc = "done" /\ req_call.handler = "hybrid_search")
        => (req_response.status = "ok" =>
            LET c == req_response.body.productos_combinados
            IN  /\ c # <<>> =>
                    /\ ~IsNone(req_call.text_query) /\ req_call.text_query[1] # <<>>
                    /\ ~IsNone(req_call.image_path)
                /\ Len(c) <= req_call.limit
                /\ \A i, j \in 1..Len(c) :
                    i < j => RelevanciaRank(c[i].relevancia) <= RelevanciaRank(c[j].relevancia)
                /\ \A i, j \in 1..Len(c) : i # j => c[i].idProducto # c[j].idProducto)

\* rag_query reached its review step with reviews enabled and answered.
RagWithReviews ==
    /\ RagServed
    /\ req_response.status = 200
    /\ req_call.request.include_reviews

\* The reviews associated with a candidate: the entry of its str(_id).
ReviewsOf(item) ==
    LET pid == Str(Get(item.producto, "_id", "None"))
    IN  IF pid \in DictKeys(req_locals.resenas_por_producto)
        THEN DictGet(req_locals.resenas_por_producto, pid) ELSE <<>>

\* C21: in rag_query with reviews enabled, each fused candidate is associated
\* with at most max_reviews reviews, every one of them a review of that same
\* item; a candidate with zero reviews gets no review section in the context
\* while the request succeeds; total_resenas is the sum of the per-candidate
\* review counts.
C21_ReviewsPerCandidate ==
    RagWithReviews =>
        LET ordenados == req_locals.productos_ordenados
        IN  /\ \A i \in 1..Len(ordenados) :
                LET rs == ReviewsOf(ordenados[i])
                IN  /\ Len(rs) <= req_call.request.max_reviews
                    /\ \A j \in 1..Len(rs) :
                        rs[j].codigoProducto = ItemId(ordenados[i].producto)
                    /\ rs = <<>> => req_locals.contexto[i].opiniones = <<>>
            /\ req_response.metadata.total_resenas
                = SumLen([i \in 1..Len(ordenados) |-> ReviewsOf(ordenados[i])])

\* C22: the context rag_query passes to the generator renders, for each
\* included candidate, the text, image and hybrid scores fusion computed for
\* it, as percentages (in tenths of a percent); a candidate with a non-zero
\* hybrid_score is not rendered with hybrid relevance 0; the context covers at
\* most 6 candidates.
C22_GeneratorContextScores ==
    (RagServed /\ req_response.status = 200) =>
        LET ordenados == req_locals.productos_ordenados
            llm_context == req_locals.llm_context
        IN  /\ Len(llm_context) = Min(LLM_CONTEXT_ITEMS, Len(ordenados))
            /\ \A i \in 1..Len(llm_context) :
                /\ llm_context[i].text = PercentOfScore(ordenados[i].text_score * 10)
                /\ llm_context[i].image = PercentOfScore(ordenados[i].image_score * 10)
                /\ llm_context[i].hybrid = PercentOfScore(ordenados[i].hybrid_score)
                /\ ordenados[i].hybrid_score # 0 => llm_context[i].hybrid # 0

\* The retrieval and answer operations; search_productos runs inside
\* hybrid_search, search_products and search_reviews inside ragtech.
RetrievalHandlers ==
    {"search_resenas", "search_by_image", "hybrid_search", "ragtech", "rag_query"}

\* C24: no retrieval or answer operation writes to persistent storage: a call
\* of one of them, succeeding or failing, issues no write call, so the
\* database has received as many write calls after it as before.
C24_RetrievalNeverWrites ==
    [][(req_pc' = "done" /\ req_pc = "idle" /\ req_call'.handler \in RetrievalHandlers)
            => /\ db_write_calls' = db_write_calls
               /\ \A i \in 1..Len(req_effects') : ~IsWriteCall(req_effects'[i])]_vars

\* A rag_query answered with reviews read on both paths, after the database
\* took a write.
C24_Witness ==
    /\ db_write_calls > 0
    /\ RagServed
    /\ req_response.status = 200
    /\ Ran("aggregate_resenas") /\ Ran("find_resenas") /\ Ran("aggregate_productos")

\* C23: when several requests call get_embedding_model, get_groq_client or
\* get_clip_model concurrently while the handle is uninitialized, the
\* underlying model or client is constructed at most once and every caller
\* receives the same handle.
C23_ConstructedOnce ==
    /\ \A g \in Globals : constructed[g] <= 1
    /\ \A t, u \in Threads :
        (/\ threads[t].pc = "returned" /\ threads[u].pc = "returned"
         /\ threads[t].getter = threads[u].getter
         /\ threads[t].kind = "returned" /\ threads[u].kind = "returned"
         /\ threads[t].model # 0 /\ threads[u].model # 0)
            => threads[t].model = threads[u].model

\* C28: get_clip_model of web_app never returns a non-null model together
\* with a null processor: a caller gets (None, None, None) or a loaded model
\* and processor.
C28_ModelAndProcessorTogether ==
    \A t \in Threads :
        (threads[t].pc = "returned" /\ threads[t].getter = "get_clip_model"
            /\ threads[t].kind = "returned")
            => (threads[t].model = 0 <=> threads[t].processor = 0)

\* C25: generate_rag_response always returns status "success" with a non-empty
\* response; when no client is configured or the provider call raises, the
\* response is the demo answer built from at most the top 3 products and
\* tokens_used is 0; the provider used for dispatch matches the kind of client
\* _setup_client installed.
C25_DemoFallbackAndDispatch ==
    (req_pc = "done" /\ req_call.handler = "generate_rag_response")
        => /\ req_response.status = "success"
           /\ req_response.response.text # <<>>
           /\ (req_locals.client = "none" \/ IsNone(req_call.completion))
                => /\ req_response.response.kind = "demo"
                   /\ req_response.response.items <= DEMO_ITEMS
                   /\ req_response.response.items <= req_call.n_products
                   /\ req_response.tokens_used = 0
           /\ req_locals.dispatch # "none" => req_locals.dispatch = req_locals.client

\* C30: in chat_interactive every non-empty input other than "/exit" has the
\* assistant's answer and its source count printed without an error, an empty
\* input prints nothing, and the loop ends only on "/exit" or a keyboard
\* interrupt.
C30_ChatAnswersEveryQuestion ==
    (req_pc = "done" /\ req_call.handler = "chat_interactive" /\ req_call.search = "ok")
        => LET typed == req_call.typed
               question == Strip(typed.line)
           IN  /\ (typed.kind = "line" /\ question # <<>> /\ Lower(question) # EXIT_COMMAND)
                    => req_effects = <<"asistente", "respuesta", "fuentes">>
               /\ (typed.kind = "line" /\ question = <<>>) => req_effects = <<>>
               /\ req_response.status = "ended"
                    => (typed.kind = "interrupt"
                        \/ (typed.kind = "line" /\ Lower(question) = EXIT_COMMAND))

====
